---- MODULE Spec2Model ----
(***************************************************************************)
(* Rule-based risk classification of the Oracle AI platform:               *)
(*   - OracleAnomalyDetector (src/src/module6_anomaly_detector.py):        *)
(*     attack-signature patterns, off-hours rule, merge of the analysis    *)
(*     returned by the configured LLM engine, statistics;                  *)
(*   - LLMEngine (src/src/llm_engine.py): generate with its fallback       *)
(*     model, detect_anomaly with its Oracle error tables, assess_security *)
(*     with its keyword deductions.                                        *)
(* Texts are TLA+ strings; substring tests, lower-casing and the regular   *)
(* expressions of the source are computed character by character.          *)
(***************************************************************************)
EXTENDS Integers, Sequences, FiniteSets, TLC

VARIABLES
    llm,        \* OracleAnomalyDetector.llm: "none", "ollama" or "text"
    stats,      \* OracleAnomalyDetector.stats
    report,     \* what the last analyze_log_entry call returned (or raised)
    calls,      \* analyze_log_entry calls made on the detector
    returned,   \* analyze_log_entry calls that returned a report
    consulted,  \* calls of self.llm.detect_anomaly made by the detector
    now,        \* the wall clock read by datetime.now()
    config,     \* the security configuration text under audit (its lines)
    security,   \* what the last assess_security call returned
    engine,     \* the last detect_anomaly or generate call of the LLMEngine and
                \* what it returned
    audit,      \* the audit logs collected so far, in the order of the file
    scan,       \* the last detect_attack_sequences call: the list it was given
                \* and what it returned
    backup,     \* the last select_strategy call of the OracleBackupRecommender
                \* and what it returned
    recovery,   \* the last handle_user_question call of the OracleRecoveryGuide
                \* and what it returned (or raised)
    chat,       \* the last generate_intelligent_response call of the chatbot
                \* and the handler that answered it
    rag,        \* OracleRAGSetup: processed_docs, stats and the upserts the
                \* index received since the namespace was last cleared
    database    \* the statements execute_custom_query passed to cursor.execute
                \* and what its last call returned

vars == <<llm, stats, report, calls, returned, consulted, now, config, security, engine,
          audit, scan, backup, recovery, chat, rag, database>>

-----------------------------------------------------------------------------
(* Bounds of the model.                                                    *)

MaxBatch == 2       \* analyze_log_entry or detect_attack_sequences calls on one detector
MaxClock == 1       \* ticks of the wall clock
MaxLines == 2       \* lines of a security configuration
MaxSession == 3     \* logs of an audit file
MaxQuestions == 2   \* questions asked in one chat session
MaxQueries == 2     \* execute_custom_query calls on one connection
MaxDocuments == 3   \* add_document and clear_namespace calls on one OracleRAGSetup

-----------------------------------------------------------------------------
(* Python str operations.                                                  *)

UpperLetters == "ABCDEFGHIJKLMNOPQRSTUVWXYZ"
LowerLetters == "abcdefghijklmnopqrstuvwxyz"
Digits == "0123456789"

\* s[i:j+1]
Slice(s, i, j) == SubSeq(s, i, j)

\* sub in s
Contains(s, sub) ==
    \E i \in 1..(Len(s) - Len(sub) + 1) : Slice(s, i, i + Len(sub) - 1) = sub

\* position of the one-character string c in alphabet, 0 when absent
IndexIn(alphabet, c) ==
    IF \E i \in 1..Len(alphabet) : Slice(alphabet, i, i) = c
    THEN CHOOSE i \in 1..Len(alphabet) : Slice(alphabet, i, i) = c
    ELSE 0

LowerChar(c) ==
    LET k == IndexIn(UpperLetters, c)
    IN  IF k = 0 THEN c ELSE Slice(LowerLetters, k, k)

UpperChar(c) ==
    LET k == IndexIn(LowerLetters, c)
    IN  IF k = 0 THEN c ELSE Slice(UpperLetters, k, k)

RECURSIVE Lower(_)
\* str.lower(), one character at a time (the text is halved to keep the
\* recursion shallow)
Lower(s) ==
    IF Len(s) <= 1 THEN LowerChar(s)
    ELSE Lower(Slice(s, 1, Len(s) \div 2)) \o Lower(Slice(s, Len(s) \div 2 + 1, Len(s)))

RECURSIVE Upper(_)
\* str.upper()
Upper(s) ==
    IF Len(s) <= 1 THEN UpperChar(s)
    ELSE Upper(Slice(s, 1, Len(s) \div 2)) \o Upper(Slice(s, Len(s) \div 2 + 1, Len(s)))

\* \s of the re module
IsSpace(c) == c \in {" ", "\t", "\n", "\r"}

\* \w of the re module
IsWord(c) ==
    \/ IndexIn(LowerLetters, c) # 0
    \/ IndexIn(UpperLetters, c) # 0
    \/ IndexIn(Digits, c) # 0
    \/ c = "_"

RECURSIVE Strip(_)
\* str.strip()
Strip(s) ==
    IF s = "" THEN ""
    ELSE IF IsSpace(Slice(s, 1, 1)) THEN Strip(Slice(s, 2, Len(s)))
    ELSE IF IsSpace(Slice(s, Len(s), Len(s))) THEN Strip(Slice(s, 1, Len(s) - 1))
    ELSE s

\* s[:n]
Prefix(s, n) == IF Len(s) <= n THEN s ELSE Slice(s, 1, n)

-----------------------------------------------------------------------------
(* The regular expressions of the source. Every pattern of ATTACK_PATTERNS *)
(* is an alternation of sequences of literals, \s+, \s* and .* ; all are   *)
(* searched case-insensitively.                                            *)

Lit(s) == <<"lit", s>>
SpPlus == <<"s+">>
SpStar == <<"s*">>
AnyStar == <<".*">>

AllSpace(text, i, j) == \A k \in i..j : IsSpace(Slice(text, k, k))
NoNewline(text, i, j) == \A k \in i..j : Slice(text, k, k) # "\n"

RECURSIVE MatchFrom(_, _, _, _)
\* parts[k..] match text at position i (text already lower-cased)
MatchFrom(parts, k, text, i) ==
    IF k > Len(parts) THEN TRUE
    ELSE LET p == parts[k]
             n == Len(text)
         IN  CASE p[1] = "lit" ->
                    /\ i + Len(p[2]) - 1 <= n
                    /\ Slice(text, i, i + Len(p[2]) - 1) = p[2]
                    /\ MatchFrom(parts, k + 1, text, i + Len(p[2]))
               [] p[1] = "s+" ->
                    \E j \in (i + 1)..(n + 1) :
                        AllSpace(text, i, j - 1) /\ MatchFrom(parts, k + 1, text, j)
               [] p[1] = "s*" ->
                    \E j \in i..(n + 1) :
                        AllSpace(text, i, j - 1) /\ MatchFrom(parts, k + 1, text, j)
               [] OTHER ->
                    \E j \in i..(n + 1) :
                        NoNewline(text, i, j - 1) /\ MatchFrom(parts, k + 1, text, j)

\* re.search(pattern, text, re.IGNORECASE), given low, the lower-cased text;
\* pattern is a sequence of alternatives
Search(pattern, low) ==
    \E a \in 1..Len(pattern) :
        \E i \in 1..(Len(low) + 1) : MatchFrom(pattern[a], 1, low, i)

-----------------------------------------------------------------------------
(* OracleAnomalyDetector: the tables.                                      *)

\* ATTACK_PATTERNS, in the insertion order of the dict
AttackOrder ==
    <<"SQL_INJECTION", "PRIVILEGE_ESCALATION", "DATA_EXFILTRATION", "BRUTE_FORCE",
      "SUSPICIOUS_DDL", "OFF_HOURS_ACCESS", "SENSITIVE_ACCESS">>

AttackTypes == {AttackOrder[i] : i \in 1..Len(AttackOrder)}

ATTACK_PATTERNS ==
    [a \in AttackTypes |->
       CASE a = "SQL_INJECTION" ->
              [patterns |->
                 << << <<Lit("union"), SpPlus, Lit("select")>>,
                       <<Lit("or"), SpPlus, Lit("1"), SpStar, Lit("="), SpStar, Lit("1")>>,
                       <<Lit("'"), SpStar, Lit("or"), SpStar, Lit("'1'"), SpStar,
                         Lit("="), SpStar, Lit("'1")>> >>,
                    << <<Lit(";--")>>, <<Lit("*/")>>, <<Lit("/*")>>, <<Lit("xp_cmdshell")>> >>,
                    << <<Lit("drop"), SpPlus, Lit("table")>>,
                       <<Lit("exec"), SpStar, Lit("(")>>,
                       <<Lit("execute"), SpPlus, Lit("immediate")>> >> >>,
               severity |-> "CRITIQUE",
               description |-> "Tentative d'injection SQL detectee"]
         [] a = "PRIVILEGE_ESCALATION" ->
              [patterns |->
                 << << <<Lit("grant"), SpPlus, Lit("dba")>>,
                       <<Lit("grant"), SpPlus, Lit("sysdba")>>,
                       <<Lit("grant"), SpPlus, Lit("all")>> >>,
                    << <<Lit("alter"), SpPlus, Lit("user"), AnyStar, Lit("identified")>>,
                       <<Lit("create"), SpPlus, Lit("user"), AnyStar, Lit("dba")>> >> >>,
               severity |-> "CRITIQUE",
               description |-> "Tentative d'escalade de privileges"]
         [] a = "DATA_EXFILTRATION" ->
              [patterns |->
                 << << <<Lit("select"), AnyStar, Lit("from"), AnyStar, Lit("password")>>,
                       <<Lit("select"), AnyStar, Lit("from"), AnyStar, Lit("credit")>> >>,
                    << <<Lit("utl_http")>>, <<Lit("utl_smtp")>>,
                       <<Lit("utl_file.put_line")>> >> >>,
               severity |-> "CRITIQUE",
               description |-> "Tentative d'exfiltration de donnees sensibles"]
         [] a = "BRUTE_FORCE" ->
              [patterns |->
                 << << <<Lit("failed"), SpPlus, Lit("login")>>,
                       <<Lit("authentication"), SpPlus, Lit("failed")>>,
                       <<Lit("invalid"), SpPlus, Lit("password")>> >> >>,
               severity |-> "HAUT",
               description |-> "Tentatives de connexion repetees (brute force)"]
         [] a = "SUSPICIOUS_DDL" ->
              [patterns |->
                 << << <<Lit("drop"), SpPlus, Lit("table"), AnyStar, Lit("audit")>>,
                       <<Lit("truncate"), AnyStar, Lit("audit")>>,
                       <<Lit("alter"), AnyStar, Lit("audit")>> >>,
                    << <<Lit("drop"), SpPlus, Lit("user"), SpPlus, Lit("sys")>>,
                       <<Lit("drop"), SpPlus, Lit("tablespace")>> >> >>,
               severity |-> "CRITIQUE",
               description |-> "Operation DDL suspecte"]
         [] a = "OFF_HOURS_ACCESS" ->
              [patterns |-> << >>,
               severity |-> "MOYEN",
               description |-> "Acces en dehors des heures ouvrables"]
         [] OTHER ->
              [patterns |->
                 << << <<Lit("sys.aud$")>>, <<Lit("dba_users")>>, <<Lit("dba_tab_privs")>> >>,
                    << <<Lit("all_passwords")>>, <<Lit("user_history")>>,
                       <<Lit("dba_roles")>> >> >>,
               severity |-> "HAUT",
               description |-> "Acces a objets systeme sensibles"]]

SeverityNames == {"CRITIQUE", "HAUT", "MOYEN", "BAS", "NORMAL"}

SEVERITY_LEVELS ==
    [s \in SeverityNames |->
       CASE s = "CRITIQUE" -> [score |-> 100, action |-> "BLOQUER IMMEDIATEMENT"]
         [] s = "HAUT"     -> [score |-> 70,  action |-> "INVESTIGATION URGENTE"]
         [] s = "MOYEN"    -> [score |-> 40,  action |-> "SURVEILLANCE ACCRUE"]
         [] s = "BAS"      -> [score |-> 20,  action |-> "NOTIFICATION"]
         [] OTHER          -> [score |-> 0,   action |-> "AUCUNE"]]

\* _score_to_severity
score_to_severity(score) ==
    IF score >= 90 THEN "CRITIQUE"
    ELSE IF score >= 70 THEN "HAUT"
    ELSE IF score >= 40 THEN "MOYEN"
    ELSE IF score >= 20 THEN "BAS"
    ELSE "NORMAL"

-----------------------------------------------------------------------------
(* OracleAnomalyDetector: detection.                                       *)

\* log.get(key, default), log being a dict
LogGet(log, key, default) == IF key \in DOMAIN log THEN log[key] ELSE default

\* the keys of a log the detector reads (session_id is never read)
LogFields ==
    {"timestamp", "username", "action", "object_name", "sql_text", "client_ip", "returncode"}

\* the log load_audit_logs_from_csv builds of one row of the file: a column the
\* row lacks becomes ''
load_audit_log(row) == [f \in LogFields |-> LogGet(row, f, "")]

\* f"{sql_text} {action} {object_name}"
combined_text(log) ==
    LogGet(log, "sql_text", "") \o " " \o LogGet(log, "action", "")
        \o " " \o LogGet(log, "object_name", "")

RECURSIVE FirstMatch(_, _, _)
\* the inner loop of detect_attack_patterns: the patterns of one class are tried
\* in order and the loop breaks at the first one that matches
FirstMatch(patterns, k, low) ==
    IF k > Len(patterns) THEN 0
    ELSE IF Search(patterns[k], low) THEN k
    ELSE FirstMatch(patterns, k + 1, low)

RECURSIVE ScanClasses(_, _)
ScanClasses(k, low) ==
    IF k > Len(AttackOrder) THEN << >>
    ELSE LET a == AttackOrder[k]
         IN  (IF FirstMatch(ATTACK_PATTERNS[a].patterns, 1, low) # 0
              THEN <<a>> ELSE << >>) \o ScanClasses(k + 1, low)

RECURSIVE ScanClassesNoBreak(_, _)
ScanClassesNoBreak(k, low) ==
    IF k > Len(AttackOrder) THEN << >>
    ELSE LET a == AttackOrder[k]
             ps == ATTACK_PATTERNS[a].patterns
             hits == SelectSeq([i \in 1..Len(ps) |-> i], LAMBDA i : Search(ps[i], low))
         IN  [i \in 1..Len(hits) |-> a] \o ScanClassesNoBreak(k + 1, low)

\* detect_attack_patterns without the break: one entry per matching pattern
detect_attack_patterns_nobreak(log) == ScanClassesNoBreak(1, Lower(combined_text(log)))

\* detect_attack_patterns: the attack types detected, in table order
detect_attack_patterns(log) == ScanClasses(1, Lower(combined_text(log)))

-----------------------------------------------------------------------------
(* datetime.fromisoformat and datetime.weekday, for the forms              *)
(* YYYY-MM-DD, YYYY-MM-DD?HH:MM:SS and YYYY-MM-DD?HH:MM:SS.ffffff.         *)

RECURSIVE ReplaceChar(_, _, _)
\* str.replace(a, b) for one-character a and b
ReplaceChar(s, a, b) ==
    IF Len(s) <= 1 THEN (IF s = a THEN b ELSE s)
    ELSE ReplaceChar(Slice(s, 1, Len(s) \div 2), a, b)
             \o ReplaceChar(Slice(s, Len(s) \div 2 + 1, Len(s)), a, b)

AllDigits(s) == \A i \in 1..Len(s) : IndexIn(Digits, Slice(s, i, i)) # 0

RECURSIVE ToInt(_)
ToInt(s) ==
    IF s = "" THEN 0
    ELSE 10 * ToInt(Slice(s, 1, Len(s) - 1)) + (IndexIn(Digits, Slice(s, Len(s), Len(s))) - 1)

IsLeap(y) == (y % 4 = 0 /\ y % 100 # 0) \/ y % 400 = 0

DaysInMonth(y, m) ==
    IF m = 2 THEN (IF IsLeap(y) THEN 29 ELSE 28)
    ELSE IF m \in {4, 6, 9, 11} THEN 30 ELSE 31

\* the date part is well formed
DateOk(s) ==
    /\ Len(s) >= 10
    /\ AllDigits(Slice(s, 1, 4)) /\ Slice(s, 5, 5) = "-"
    /\ AllDigits(Slice(s, 6, 7)) /\ Slice(s, 8, 8) = "-"
    /\ AllDigits(Slice(s, 9, 10))
    /\ ToInt(Slice(s, 1, 4)) >= 1
    /\ ToInt(Slice(s, 6, 7)) \in 1..12
    /\ ToInt(Slice(s, 9, 10)) \in 1..DaysInMonth(ToInt(Slice(s, 1, 4)), ToInt(Slice(s, 6, 7)))

\* the time part is well formed
TimeOk(s) ==
    /\ Len(s) \in {19, 26}
    /\ AllDigits(Slice(s, 12, 13)) /\ Slice(s, 14, 14) = ":"
    /\ AllDigits(Slice(s, 15, 16)) /\ Slice(s, 17, 17) = ":"
    /\ AllDigits(Slice(s, 18, 19))
    /\ ToInt(Slice(s, 12, 13)) \in 0..23
    /\ ToInt(Slice(s, 15, 16)) \in 0..59
    /\ ToInt(Slice(s, 18, 19)) \in 0..59
    /\ Len(s) = 26 => (Slice(s, 20, 20) = "." /\ AllDigits(Slice(s, 21, 26)))

\* fromisoformat raises ValueError when ok is FALSE
fromisoformat(s) ==
    IF DateOk(s) /\ (Len(s) = 10 \/ TimeOk(s))
    THEN [ok |-> TRUE,
          year |-> ToInt(Slice(s, 1, 4)), month |-> ToInt(Slice(s, 6, 7)),
          day |-> ToInt(Slice(s, 9, 10)),
          hour |-> IF Len(s) = 10 THEN 0 ELSE ToInt(Slice(s, 12, 13))]
    ELSE [ok |-> FALSE, year |-> 0, month |-> 0, day |-> 0, hour |-> 0]

MonthOffset == <<0, 3, 2, 5, 0, 3, 5, 1, 4, 6, 2, 4>>

\* datetime.weekday(): Monday is 0, Sunday is 6
weekday(dt) ==
    LET y == IF dt.month < 3 THEN dt.year - 1 ELSE dt.year
        sunday0 == (y + (y \div 4) - (y \div 100) + (y \div 400)
                      + MonthOffset[dt.month] + dt.day) % 7
    IN  (sunday0 + 6) % 7

\* check_off_hours_access with the weekend test dropped
check_off_hours_access_night_only(timestamp) ==
    LET dt == fromisoformat(ReplaceChar(timestamp, " ", "T"))
    IN  IF dt.ok THEN (dt.hour >= 22 \/ dt.hour <= 6) ELSE FALSE

\* check_off_hours_access
check_off_hours_access(timestamp) ==
    LET dt == fromisoformat(ReplaceChar(timestamp, " ", "T"))
    IN  IF dt.ok
        THEN LET is_night == dt.hour >= 22 \/ dt.hour <= 6
                 is_weekend == weekday(dt) >= 5
             IN  is_night \/ is_weekend
        ELSE FALSE

-----------------------------------------------------------------------------
(* LLMEngine (src/src/llm_engine.py).                                      *)

default_model == "gemma2:2b"
fallback_model == "tinyllama"

\* what one ollama.generate call does: it returns a response or it raises
OllamaOk(text) == [ok |-> TRUE, response |-> text]
OllamaFails == [ok |-> FALSE, response |-> ""]

NoModelMessage ==
    "[Erreur] Aucun modele disponible. Installez au moins 'gemma2:2b' ou 'tinyllama'."

\* generate that lets the failure of the fallback model escape
generate_unguarded(primary, fallback) ==
    IF primary.ok
    THEN [raised |-> FALSE, text |-> Strip(primary.response), model_calls |-> 1]
    ELSE IF fallback.ok
    THEN [raised |-> FALSE, text |-> "[tinyllama fallback] " \o Strip(fallback.response),
          model_calls |-> 2]
    ELSE [raised |-> TRUE, text |-> "", model_calls |-> 2]

\* generate whose failure of the fallback model escapes to the retry decorator:
\* stop_after_attempt(2) runs the body a second time, the two models are called
\* again, and RetryError is raised
generate_retried(primary, fallback) ==
    IF primary.ok
    THEN [raised |-> FALSE, text |-> Strip(primary.response), model_calls |-> 1]
    ELSE IF fallback.ok
    THEN [raised |-> FALSE, text |-> "[tinyllama fallback] " \o Strip(fallback.response),
          model_calls |-> 2]
    ELSE [raised |-> TRUE, text |-> "", model_calls |-> 4]

\* generate: primary and fallback are the outcomes of the call of the requested
\* model and of the call of the fallback model (made only when the first fails);
\* every exception is caught in the body, so that the retry decorator never
\* runs a second attempt
generate(primary, fallback) ==
    IF primary.ok
    THEN [raised |-> FALSE, text |-> Strip(primary.response), model_calls |-> 1]
    ELSE IF fallback.ok
    THEN [raised |-> FALSE, text |-> "[tinyllama fallback] " \o Strip(fallback.response),
          model_calls |-> 2]
    ELSE [raised |-> FALSE, text |-> NoModelMessage, model_calls |-> 2]

\* critical_errors of detect_anomaly, in the insertion order of the dict
critical_errors ==
    << <<"ora-00600", "CRITIQUE", "CRITIQUE", "Erreur interne Oracle - Necessite support Oracle">>,
       <<"ora-00700", "CRITIQUE", "CRITIQUE", "Soft internal error - Verifier alertes">>,
       <<"ora-01555", "CRITIQUE", "HAUTE", "Snapshot too old - Augmenter UNDO_RETENTION">>,
       <<"ora-01652", "CRITIQUE", "HAUTE", "Tablespace temporaire plein - Augmenter TEMP">>,
       <<"ora-00257", "CRITIQUE", "CRITIQUE", "Archiver error - Espace disque insuffisant">>,
       <<"ora-27037", "CRITIQUE", "HAUTE", "Erreur I/O fichier - Verifier disque">>,
       <<"tns-12535", "CRITIQUE", "HAUTE", "Timeout reseau - Verifier connectivite">>,
       <<"tns-12560", "CRITIQUE", "HAUTE", "Erreur adaptateur protocole">> >>

\* suspect_errors of detect_anomaly
suspect_errors ==
    << <<"ora-00942", "SUSPECT", "MOYENNE", "Table inexistante ou privileges manquants">>,
       <<"ora-01017", "SUSPECT", "MOYENNE", "Login/password invalide - Possible attaque">>,
       <<"ora-12154", "SUSPECT", "BASSE", "TNS service name non resolu">>,
       <<"ora-28000", "SUSPECT", "MOYENNE", "Compte verrouille - Tentatives login multiples">> >>

RECURSIVE FirstError(_, _, _)
\* the loop over an error table: index of the first code found in log_lower, or 0
FirstError(table, k, log_lower) ==
    IF k > Len(table) THEN 0
    ELSE IF Contains(log_lower, table[k][1]) THEN k
    ELSE FirstError(table, k + 1, log_lower)

\* the rule matched by detect_anomaly: <<classification, severity, justification>>,
\* or << >> when no error code is found
error_rule(log_entry) ==
    LET log_lower == Lower(log_entry)
        c == FirstError(critical_errors, 1, log_lower)
        u == FirstError(suspect_errors, 1, log_lower)
    IN  IF c # 0 THEN <<critical_errors[c][2], critical_errors[c][3], critical_errors[c][4]>>
        ELSE IF u # 0 THEN <<suspect_errors[u][2], suspect_errors[u][3], suspect_errors[u][4]>>
        ELSE << >>

RECURSIVE SkipSpace(_, _)
\* where a greedy \s* that starts at i ends
SkipSpace(text, i) ==
    IF i <= Len(text) /\ IsSpace(Slice(text, i, i)) THEN SkipSpace(text, i + 1) ELSE i

RECURSIVE WordEnd(_, _)
\* where a greedy \w+ that starts at i ends (i - 1 when no word character is at i)
WordEnd(text, i) ==
    IF i <= Len(text) /\ IsWord(Slice(text, i, i)) THEN WordEnd(text, i + 1) ELSE i - 1

\* the position after "<keyword>\s*:\s*" when that matches at i, else 0
AfterLabel(low, keyword, i) ==
    LET a == i + Len(keyword)
        c == SkipSpace(low, a)
    IN  IF /\ a - 1 <= Len(low)
           /\ Slice(low, i, a - 1) = keyword
           /\ c <= Len(low)
           /\ Slice(low, c, c) = ":"
        THEN SkipSpace(low, c + 1)
        ELSE 0

\* re.search(r'CLASSIFICATION\s*:\s*(\w+)', response, re.IGNORECASE): group 1, or ""
class_match(response) ==
    LET low == Lower(response)
        Hit(i) == AfterLabel(low, "classification", i) # 0
                    /\ WordEnd(response, AfterLabel(low, "classification", i))
                         >= AfterLabel(low, "classification", i)
    IN  IF \E i \in 1..Len(low) : Hit(i)
        THEN LET i == CHOOSE i \in 1..Len(low) : Hit(i) /\ \A j \in 1..(i - 1) : ~Hit(j)
                 w == AfterLabel(low, "classification", i)
             IN  Slice(response, w, WordEnd(response, w))
        ELSE ""

\* re.search(r'JUSTIFICATION\s*:\s*(.+)', response, re.IGNORECASE | re.DOTALL):
\* <<TRUE, group(1).strip()>>, or <<FALSE, "">>
justif_match(response) ==
    LET low == Lower(response)
        Colon(i) == LET a == i + Len("justification")
                        c == SkipSpace(low, a)
                    IN  IF /\ a - 1 <= Len(low)
                           /\ Slice(low, i, a - 1) = "justification"
                           /\ c < Len(low)
                           /\ Slice(low, c, c) = ":"
                        THEN c ELSE 0
    IN  IF \E i \in 1..Len(low) : Colon(i) # 0
        THEN LET i == CHOOSE i \in 1..Len(low) :
                          Colon(i) # 0 /\ \A j \in 1..(i - 1) : Colon(j) = 0
             IN  <<TRUE, Strip(Slice(response, Colon(i) + 1, Len(response)))>>
        ELSE <<FALSE, "">>

Absent == "<absent>"

\* the classification detect_anomaly reads in the reply of the model
parse_classification(response) ==
    LET response_lower == Lower(response)
    IN  IF class_match(response) # "" THEN Upper(class_match(response))
        ELSE IF Contains(response_lower, "critique") \/ Contains(response_lower, "critical")
        THEN "CRITIQUE"
        ELSE IF Contains(response_lower, "suspect") \/ Contains(response_lower, "anormal")
        THEN "SUSPECT"
        ELSE "NORMAL"

\* severity_map.get(classification, 'MOYENNE')
severity_of(classification) ==
    CASE classification = "CRITIQUE" -> "CRITIQUE"
      [] classification = "SUSPECT" -> "MOYENNE"
      [] classification = "NORMAL" -> "BASSE"
      [] OTHER -> "MOYENNE"

\* an argument of detect_anomaly: a str, or the dict that _get_llm_analysis passes
PyStr(text) == [t |-> "str", s |-> text]
PyDict == [t |-> "dict", s |-> ""]

AnomalyResult(raised, error, classification, justification, severity, confidence, model_used, log_entry, model_calls) ==
    [raised |-> raised, error |-> error, classification |-> classification,
     justification |-> justification, severity |-> severity, confidence |-> confidence,
     model_used |-> model_used, log_entry |-> log_entry, model_calls |-> model_calls]

\* detect_anomaly with the error tables consulted after the model
detect_anomaly_model_first(entry, primary, fallback) ==
    IF entry.t # "str"
    THEN AnomalyResult(TRUE, "'dict' object has no attribute 'lower'",
                       Absent, Absent, Absent, Absent, Absent, Absent, 0)
    ELSE LET g == generate(primary, fallback)
             classification == parse_classification(g.text)
             j == justif_match(g.text)
         IN  AnomalyResult(FALSE, "", classification,
                           IF j[1] THEN Prefix(j[2], 200) ELSE Prefix(g.text, 200),
                           severity_of(classification), "medium", default_model,
                           Absent, g.model_calls)

\* detect_anomaly
detect_anomaly(entry, primary, fallback) ==
    IF entry.t # "str"
    THEN \* log_entry.lower() raises AttributeError before the try block
         AnomalyResult(TRUE, "'dict' object has no attribute 'lower'",
                       Absent, Absent, Absent, Absent, Absent, Absent, 0)
    ELSE LET rule == error_rule(entry.s)
         IN  IF rule # << >>
             THEN AnomalyResult(FALSE, "", rule[1], rule[3], rule[2], "high",
                                "rule-based", Prefix(entry.s, 100), 0)
             ELSE LET g == generate(primary, fallback)
                  IN  IF g.raised
                      THEN AnomalyResult(FALSE, "", "NORMAL",
                                         "Impossible d'analyser ce log. Erreur: RetryError",
                                         "BASSE", "low", Absent, Absent, g.model_calls)
                      ELSE LET classification == parse_classification(g.text)
                               j == justif_match(g.text)
                           IN  AnomalyResult(FALSE, "", classification,
                                   IF j[1] THEN Prefix(j[2], 200) ELSE Prefix(g.text, 200),
                                   severity_of(classification), "medium", default_model,
                                   Absent, g.model_calls)

\* the keyword deductions of assess_security, in the order of the code
deductions(config_lower) ==
    << IF Contains(config_lower, "dba") THEN 40 ELSE 0,
       IF Contains(config_lower, "create any table") THEN 20 ELSE 0,
       IF Contains(config_lower, "select any table") THEN 20 ELSE 0,
       IF Contains(config_lower, "drop any") THEN 15 ELSE 0,
       IF \/ Contains(config_lower, "n'expire")
          \/ Contains(config_lower, "never expire")
          \/ Contains(config_lower, "jamais") THEN 15 ELSE 0,
       IF Contains(config_lower, "unlimited tablespace") THEN 10 ELSE 0,
       IF Contains(config_lower, "sysdba") \/ Contains(config_lower, "sysoper")
       THEN 30 ELSE 0 >>

RECURSIVE SumSeq(_)
SumSeq(q) == IF q = << >> THEN 0 ELSE Head(q) + SumSeq(Tail(q))

Max(a, b) == IF a >= b THEN a ELSE b
Min(a, b) == IF a <= b THEN a ELSE b

\* the lines a security configuration is made of
ConfigLines ==
    {"DBA", "SYSDBA", "SYSOPER", "Select Any Table", "UNLIMITED TABLESPACE",
     "Mot de passe qui n'expire jamais", "password never expires", "CREATE SESSION",
     "PROFILE DEFAULT",
     "CREATE ANY TABLE, SELECT ANY TABLE, DROP ANY VIEW"}

ConfigHeader == "Utilisateur APP_USER possede les privileges suivants :"

RECURSIVE ConfigText(_)
\* the configuration text handed to assess_security
ConfigText(lines) ==
    IF lines = << >> THEN ConfigHeader
    ELSE ConfigText(SubSeq(lines, 1, Len(lines) - 1)) \o "\n- " \o lines[Len(lines)]

\* the configurations, and their texts
Configs == UNION {[1..n -> ConfigLines] : n \in 0..MaxLines}
ConfigTexts == {ConfigText(c) : c \in Configs}

\* the rule-based score of assess_security where UNLIMITED TABLESPACE is
\* rewarded instead of penalised
rule_score_bonus(config_text) ==
    LET d == deductions(Lower(config_text))
    IN  Max(0, Min(100, 100 - SumSeq(d) + 2 * d[6]))

\* the rule-based score of assess_security (ETAPE 1)
rule_score(config_text) ==
    Max(0, Min(100, 100 - SumSeq(deductions(Lower(config_text)))))

\* rule_score of the text of every configuration, computed once
ScoreMemo == [text \in ConfigTexts |-> rule_score(text)]

\* the number of deduction rules of ETAPE 1 that fire on a configuration text
fired_rules(config_text) ==
    LET d == deductions(Lower(config_text))
    IN  Cardinality({i \in 1..Len(d) : d[i] > 0})

\* fired_rules of the text of every configuration, computed once
FiredMemo == [text \in ConfigTexts |-> fired_rules(text)]

\* str.find(sub, start): the first position >= start at which sub occurs in s,
\* 0 when there is none
IndexOf(s, sub, start) ==
    LET hits == {i \in start..(Len(s) - Len(sub) + 1) : Slice(s, i, i + Len(sub) - 1) = sub}
    IN  IF hits = {} THEN 0 ELSE CHOOSE i \in hits : \A j \in hits : i <= j

RECURSIVE SplitLines(_)
\* s.split('\n')
SplitLines(s) ==
    LET i == IndexOf(s, "\n", 1)
    IN  IF i = 0 THEN <<s>>
        ELSE <<Slice(s, 1, i - 1)>> \o SplitLines(Slice(s, i + 1, Len(s)))

\* the bullet characters of the replies (the source also strips two bullets
\* that are no ASCII characters)
Bullets == {"-", "*"}

\* line.lstrip('-* ')
LStripBullets(s) ==
    LET keep == {i \in 1..Len(s) : Slice(s, i, i) \notin Bullets \cup {" "}}
    IN  IF keep = {} THEN ""
        ELSE Slice(s, CHOOSE i \in keep : \A j \in keep : i <= j, Len(s))

RECURSIVE RemoveStars(_)
\* re.sub(r'\*\*', '', s)
RemoveStars(s) ==
    LET i == IndexOf(s, "**", 1)
    IN  IF i = 0 THEN s
        ELSE Slice(s, 1, i - 1) \o RemoveStars(Slice(s, i + 2, Len(s)))

\* re.search(r'RISQUES[^:]*:(.*?)(?=RECOMMANDATIONS|ANALYSE|$)', response,
\* re.IGNORECASE | re.DOTALL): <<TRUE, group(1)>>, or <<FALSE, "">>
risk_section(response) ==
    LET low == Lower(response)
        n == Len(response)
        i == IndexOf(low, "risques", 1)
        c == IF i = 0 THEN 0 ELSE IndexOf(low, ":", i + Len("risques"))
        r == IndexOf(low, "recommandations", c + 1)
        a == IndexOf(low, "analyse", c + 1)
        \* $ matches at the end and before a final newline
        e == IF n > c /\ Slice(response, n, n) = "\n" THEN n ELSE n + 1
        stop == Min(IF r = 0 THEN e ELSE r, Min(IF a = 0 THEN e ELSE a, e))
    IN  IF c = 0 THEN <<FALSE, "">> ELSE <<TRUE, Slice(response, c + 1, stop - 1)>>

\* what the loop over the lines of the section keeps of one line: <<risk>>, or
\* << >> when the line is dropped
section_risk(raw) ==
    LET line == Strip(raw)
        stripped == RemoveStars(Strip(LStripBullets(line)))
        colon == IndexOf(stripped, ":", 1)
        clean_risk == IF colon = 0 \/ colon - 1 > 50 THEN stripped
                      ELSE Strip(Slice(stripped, colon + 1, Len(stripped)))
    IN  IF line # "" /\ Slice(line, 1, 1) \in Bullets /\ Len(clean_risk) > 15
        THEN <<clean_risk>> ELSE << >>

\* risk_keywords, without the keywords that hold a non-ASCII letter (no reply of
\* the model holds one)
risk_keywords == {"dba", "any table", "expire", "risque", "danger"}

\* what the fallback loop over the lines of the reply keeps of one line
fallback_risk(raw) ==
    LET clean == RemoveStars(LStripBullets(Strip(raw)))
    IN  IF (\E kw \in risk_keywords : Contains(Lower(raw), kw))
           /\ 15 < Len(clean) /\ Len(clean) < 300
        THEN <<clean>> ELSE << >>

RECURSIVE Collect(_, _, _)
\* the risks kept of lines[k..]; in_section says which of the two loops runs
Collect(lines, k, in_section) ==
    IF k > Len(lines) THEN << >>
    ELSE (IF in_section THEN section_risk(lines[k]) ELSE fallback_risk(lines[k]))
            \o Collect(lines, k + 1, in_section)

\* ETAPE 2 of assess_security, with the cut risks[:10] of the return
extract_risks(response) ==
    LET sec == risk_section(response)
        found == IF sec[1] THEN Collect(SplitLines(sec[2]), 1, TRUE) ELSE << >>
        risks == IF found # << >> THEN found
                 ELSE Collect(SplitLines(response), 1, FALSE)
    IN  SubSeq(risks, 1, Min(10, Len(risks)))

\* what ollama.generate may do when asked to audit a configuration
SecurityOutcomes ==
    {OllamaFails,
     OllamaOk("SCORE: 30\n\nRISQUES DETECTES:\n- Privilege DBA accorde un acces administrateur complet\n- **Expiration**: mot de passe sans expiration\n- court\n\nRECOMMANDATIONS:\n- Revoquer le privilege DBA immediatement\n"),
     OllamaOk("Configuration saine, aucun risque particulier.")}

SecurityPairs ==
    {[primary |-> p, fallback |-> f] : p \in SecurityOutcomes, f \in SecurityOutcomes}
        \ {[primary |-> p, fallback |-> f] :
               p \in SecurityOutcomes \ {OllamaFails}, f \in SecurityOutcomes \ {OllamaFails}}

\* extract_risks of the reply generate returns, for every outcome of the model
\* calls, computed once
RisksMemo ==
    [pf \in SecurityPairs |-> extract_risks(generate(pf.primary, pf.fallback).text)]

\* assess_security: generate is called first and its reply feeds the risks,
\* recommendations and analysis fields only; the score comes from the rules
assess_security(config_text, primary, fallback) ==
    LET g == generate(primary, fallback)
    IN  IF g.raised
        THEN [status |-> "returned", error |-> "RetryError", score |-> 0,
              risks |-> << >>,
              model_used |-> Absent, scoring_method |-> Absent,
              model_calls |-> g.model_calls]
        ELSE [status |-> "returned", error |-> "", score |-> ScoreMemo[config_text],
              risks |-> RisksMemo[[primary |-> primary, fallback |-> fallback]],
              model_used |-> default_model, scoring_method |-> "rule-based",
              model_calls |-> g.model_calls]

-----------------------------------------------------------------------------
(* OracleAnomalyDetector: the analysis of the configured LLM engine.       *)

\* a Python value with its str() form; items are the elements of a list
JStr(text) == [t |-> "str", s |-> text, items |-> << >>]
JNull == [t |-> "null", s |-> "None", items |-> << >>]
JNum(n) == [t |-> "num", s |-> ToString(n), items |-> << >>]
JList(q) == [t |-> "list", s |-> ToString(q), items |-> q]

\* what json.loads makes of a reply
NotJson == [kind |-> "invalid", type_name |-> "", fields |-> << >>]
JsonObject(f) == [kind |-> "dict", type_name |-> "dict", fields |-> f]
JsonOther(type_name) == [kind |-> "other", type_name |-> type_name, fields |-> << >>]

\* what the call self.llm.detect_anomaly(log_entry, context) does
LlmRaises(error) == [raised |-> TRUE, error |-> error, text |-> "", loads |-> NotJson]
LlmReplies(text, loads) == [raised |-> FALSE, error |-> "", text |-> text, loads |-> loads]

\* parsed.get(key, default)
Get(parsed, key, default) ==
    IF key \in DOMAIN parsed.fields THEN parsed.fields[key] ELSE default

NamesOf(attacks) == [i \in 1..Len(attacks) |-> attacks[i]]

Unavailable(error) ==
    [classification |-> JStr("NORMAL"),
     justification |-> JStr("Analyse LLM non disponible: " \o error),
     severite |-> JStr("BAS"),
     patterns_detectes |-> JList(<< >>),
     recommandation |-> JStr("Verifier la configuration LLM")]

\* _get_llm_analysis
get_llm_analysis(log, attacks, outcome) ==
    IF outcome.raised THEN Unavailable(outcome.error)
    ELSE CASE outcome.loads.kind = "dict" ->
                [classification |-> Get(outcome.loads, "classification", JStr("NORMAL")),
                 justification |-> Get(outcome.loads, "justification",
                                       JStr(Prefix(outcome.text, 300))),
                 severite |-> Get(outcome.loads, "severite", JStr("BAS")),
                 patterns_detectes |-> Get(outcome.loads, "patterns_detectes", JList(<< >>)),
                 recommandation |-> Get(outcome.loads, "recommandation",
                                        JStr("Surveillance continue"))]
           [] outcome.loads.kind = "invalid" ->
                [classification |-> JStr(IF attacks # << >> THEN "SUSPECT" ELSE "NORMAL"),
                 justification |-> JStr(Prefix(outcome.text, 300)),
                 severite |-> JStr(IF attacks # << >> THEN "HAUT" ELSE "BAS"),
                 patterns_detectes |-> JList(NamesOf(attacks)),
                 recommandation |-> JStr(IF attacks # << >> THEN "Analyser davantage"
                                         ELSE "Aucune action requise")]
           [] OTHER ->
                Unavailable("'" \o outcome.loads.type_name
                                \o "' object has no attribute 'get'")

\* _severity_to_score, for a str argument
severity_to_score(severity) ==
    LET up == Upper(severity)
    IN  CASE up = "CRITIQUE" -> 100
          [] up = "HAUT" -> 70
          [] up = "MOYEN" -> 40
          [] up = "BAS" -> 20
          [] OTHER -> 0

-----------------------------------------------------------------------------
(* The inputs.                                                             *)

Log(timestamp, username, action, object_name, sql_text, client_ip) ==
    [timestamp |-> timestamp, username |-> username, action |-> action,
     object_name |-> object_name, sql_text |-> sql_text, client_ip |-> client_ip,
     returncode |-> "0"]

\* 2026-01-05 is a Monday, 2026-01-09 a Friday, 2026-01-10 a Saturday and
\* 2026-01-11 a Sunday; the last two timestamps are not ISO dates
Timestamps ==
    {"2026-01-05 10:00:00", "2026-01-05 22:00:00", "2026-01-05T21:59:59",
     "2026-01-06 06:30:00", "2026-01-06 07:00:00.000000", "2026-01-09 00:15:00",
     "2026-01-10 03:00:00", "2026-01-11 12:00:00", "", "10/01/2026 03:00"}

WorkTime == "2026-01-05 10:00:00"
SaturdayNight == "2026-01-10 03:00:00"

\* statements that match no signature pattern
BenignLogs ==
    {Log(ts, "APP_USER", "SELECT", "ORDERS", "SELECT * FROM orders", "192.168.1.100") :
        ts \in Timestamps}
    \cup {Log(WorkTime, "APP_USER", "SELECT", "DUAL",
              "SELECT 1 FROM dual -- ORA-00600", "192.168.1.100")}

\* statements that match signature patterns
AttackLogs ==
    {Log(ts, "ATTACKER", "SELECT", "USERS",
         "SELECT * FROM users WHERE id='1' OR '1'='1' --", "10.0.0.50") :
        ts \in {WorkTime, SaturdayNight}}
    \cup {Log(WorkTime, "HACKER", "SELECT", "ACCOUNTS",
              "SELECT * FROM accounts UNION SELECT password FROM dba_users", "10.0.0.51"),
          Log(WorkTime, "MALICIOUS", "DROP", "AUDIT_LOGS",
              "'; DROP TABLE audit_logs; /* dba_users */", "10.0.0.52"),
          Log(WorkTime, "BRUTE_FORCE", "CONNECT", "DATABASE",
              "CONNECT sys/x -- Authentication  failed", "10.0.0.53"),
          Log(SaturdayNight, "ATTACKER", "SELECT", "DBA_ROLES",
              "SELECT * FROM dba_roles", "10.0.0.50"),
          Log(WorkTime, "COMPROMISED", "GRANT", "ROLE",
              "GRANT DBA TO app_user -- ORA-01017", "10.0.0.54"),
          Log(WorkTime, "HACKER", "EXEC", "UTL_HTTP",
              "BEGIN UTL_HTTP.REQUEST('http://evil.com'); END; -- ORA-00600",
              "10.0.0.51")}

\* an entry that lacks the key timestamp
EntryWithoutTimestamp ==
    [username |-> "APP_USER", action |-> "SELECT", object_name |-> "ORDERS",
     sql_text |-> "SELECT * FROM orders", client_ip |-> "192.168.1.100",
     returncode |-> "0"]

\* the entry as it is, and as load_audit_logs_from_csv loads it from a file
\* without the column timestamp (the entry of BenignLogs with timestamp '')
IncompleteLogs == {EntryWithoutTimestamp, load_audit_log(EntryWithoutTimestamp)}

Logs == BenignLogs \cup AttackLogs \cup IncompleteLogs

\* what ollama.generate may do
OllamaOutcomes ==
    {OllamaFails,
     OllamaOk("CLASSIFICATION: SUSPECT\nJUSTIFICATION: Requete inhabituelle \n"),
     OllamaOk("Classification : critique\nJustification: acces systeme"),
     OllamaOk("CLASSIFICATION: [NORMAL]\nJUSTIFICATION:  "),
     OllamaOk("  Ce log est anormal.  "),
     OllamaOk("classification: dangereux")}

\* the outcomes of the two model calls of one generate: the fallback model is
\* called only when the first call fails
OllamaPairs ==
    {[primary |-> p, fallback |-> f] : p \in OllamaOutcomes, f \in OllamaOutcomes}
        \ {[primary |-> p, fallback |-> f] :
               p \in OllamaOutcomes \ {OllamaFails}, f \in OllamaOutcomes \ {OllamaFails}}

\* what the detect_anomaly of an engine that returns the text of its model may do
\* (each reply is given with what json.loads makes of it)
TextOutcomes ==
    {LlmRaises("timeout"),
     LlmReplies("RAS: activite normale", NotJson),
     LlmReplies("42", JsonOther("int")),
     LlmReplies("{\"classification\": \"SUSPECT\", \"severite\": \"moyen\", \"justification\": \"volume inhabituel\", \"patterns_detectes\": [\"DATA_EXFILTRATION\"]}",
                JsonObject([classification |-> JStr("SUSPECT"),
                            severite |-> JStr("moyen"),
                            justification |-> JStr("volume inhabituel"),
                            patterns_detectes |-> JList(<<"DATA_EXFILTRATION">>)])),
     LlmReplies("{\"classification\": \"CRITIQUE\", \"recommandation\": \"Bloquer\"}",
                JsonObject([classification |-> JStr("CRITIQUE"),
                            recommandation |-> JStr("Bloquer")])),
     LlmReplies("{\"classification\": \"SUSPECT\", \"severite\": null}",
                JsonObject([classification |-> JStr("SUSPECT"), severite |-> JNull])),
     LlmReplies("{\"classification\": \"CRITIQUE\", \"severite\": \"HAUT\", \"patterns_detectes\": null}",
                JsonObject([classification |-> JStr("CRITIQUE"), severite |-> JStr("HAUT"),
                            patterns_detectes |-> JNull]))}

\* what self.llm.detect_anomaly(log_entry, context) may do, by the kind of engine:
\* the LLMEngine of llm_engine.py is handed a dict
LlmOutcomes(kind) ==
    CASE kind = "ollama" ->
           {LET r == detect_anomaly(PyDict, pf.primary, pf.fallback)
            IN  IF r.raised THEN LlmRaises(r.error)
                ELSE LlmRaises("the JSON object must be str, bytes or bytearray, not dict") :
              pf \in OllamaPairs}
      [] kind = "text" -> TextOutcomes
      [] OTHER -> {LlmRaises("")}

\* replies whose severity is a word of the error tables of the LLMEngine
\* ('HAUTE'), which the severity map of the detector does not hold, or NORMAL
SeverityOutcomes ==
    {LlmReplies("{\"classification\": \"CRITIQUE\", \"severite\": \"HAUTE\"}",
                JsonObject([classification |-> JStr("CRITIQUE"), severite |-> JStr("HAUTE")])),
     LlmReplies("{\"classification\": \"SUSPECT\", \"severite\": \"NORMAL\"}",
                JsonObject([classification |-> JStr("SUSPECT"), severite |-> JStr("NORMAL")]))}

\* the entries a detector analyses while it also scans audit files: a read in
\* working hours, the same read on a Saturday night, and an injection
DetectorLogs ==
    {Log(WorkTime, "APP_USER", "SELECT", "ORDERS", "SELECT * FROM orders", "192.168.1.100"),
     Log(SaturdayNight, "APP_USER", "SELECT", "ORDERS", "SELECT * FROM orders",
         "192.168.1.100"),
     Log(WorkTime, "ATTACKER", "SELECT", "USERS",
         "SELECT * FROM users WHERE id='1' OR '1'='1' --", "10.0.0.50")}

\* what the engine of such a detector may do
DetectorOutcomes(kind) ==
    LlmOutcomes(kind) \cup (IF kind = "text" THEN SeverityOutcomes ELSE {})

\* the logs of two accounts whose names and addresses give the same session
\* key: SVC from the host BATCH_srv01, and SVC_BATCH from the host srv01
GroupLogs ==
    {Log(WorkTime, "SVC", "SELECT", "DBA_USERS", "SELECT * FROM dba_users", "BATCH_srv01"),
     Log(SaturdayNight, "SVC", "GRANT", "ROLE", "GRANT DBA TO svc", "BATCH_srv01"),
     Log(WorkTime, "SVC_BATCH", "DROP", "TABLE", "DROP TABLE staging", "srv01")}

\* the log texts handed to LLMEngine.detect_anomaly
CodeCases(code) == {code, Upper(code), "Ora" \o Slice(code, 4, Len(code))}

AnomalyTexts ==
    {"User SCOTT logged in from 10.0.0.1", "SELECT * FROM orders",
     "ORA-00942: table or view does not exist",
     "ORA-01555: snapshot too old - rollback segment too small",
     "ORA-01017 invalid password; then ORA-00257: archiver error, CRITIQUE"}
    \cup {"alert: " \o c \o " raised" :
            c \in UNION {CodeCases(critical_errors[i][1]) : i \in 1..Len(critical_errors)}}

\* detect_attack_patterns and check_off_hours_access of every log of Logs and
\* of GroupLogs, computed once
ScanMemo ==
    [l \in Logs \cup GroupLogs |-> [detected |-> detect_attack_patterns(l),
                     is_off_hours |-> check_off_hours_access(LogGet(l, "timestamp", ""))]]

\* the entry of the error tables of LLMEngine.detect_anomaly that the statement
\* text of every log of Logs selects (<< >> when it holds no known code),
\* computed once
ErrorMemo == [l \in Logs |-> error_rule(LogGet(l, "sql_text", ""))]

-----------------------------------------------------------------------------
(* OracleAnomalyDetector.analyze_log_entry.                                *)

Occurrences(q, x) == Cardinality({i \in 1..Len(q) : q[i] = x})

SetMax(S) == CHOOSE m \in S : \A x \in S : x <= m

\* the characters of a str, as list.extend iterates them
Chars(text) == [i \in 1..Len(text) |-> Slice(text, i, i)]

EmptyDict == << >>

Report(status, error, log, classification, severity_score, attack_types, justifications, is_off_hours, recommended_action, llm_analysis, timestamp) ==
    [status |-> status, error |-> error, log |-> log,
     classification |-> classification,
     severity_score |-> severity_score,
     severity_level |-> score_to_severity(severity_score),
     attack_types |-> attack_types,
     justifications |-> justifications,
     is_off_hours |-> is_off_hours,
     recommended_action |-> recommended_action,
     llm_analysis |-> llm_analysis,
     timestamp |-> timestamp]

\* the rule-based classification where the off-hours rule gives no justification
rule_classification_silent(detected, is_off_hours) ==
    IF detected # << >>
    THEN LET max_severity ==
                 SetMax({SEVERITY_LEVELS[ATTACK_PATTERNS[detected[i]].severity].score :
                            i \in 1..Len(detected)})
             critical == max_severity >= 70
         IN  [classification |-> IF critical THEN "CRITIQUE" ELSE "SUSPECT",
              severity_score |-> max_severity,
              attack_types |-> detected,
              justifications |-> [i \in 1..Len(detected) |->
                                     ATTACK_PATTERNS[detected[i]].description],
              counter |-> IF critical THEN "critique" ELSE "suspect"]
    ELSE IF is_off_hours
    THEN [classification |-> "SUSPECT", severity_score |-> 40,
          attack_types |-> <<"OFF_HOURS_ACCESS">>,
          justifications |-> << >>,
          counter |-> "suspect"]
    ELSE [classification |-> "NORMAL", severity_score |-> 0,
          attack_types |-> << >>, justifications |-> << >>, counter |-> "normal"]

\* the rule-based classification of analyze_log_entry (lines 163-195); counter is
\* the statistics counter it increments
rule_classification(detected, is_off_hours) ==
    IF detected # << >>
    THEN LET max_severity ==
                 SetMax({SEVERITY_LEVELS[ATTACK_PATTERNS[detected[i]].severity].score :
                            i \in 1..Len(detected)})
             critical == max_severity >= 70
         IN  [classification |-> IF critical THEN "CRITIQUE" ELSE "SUSPECT",
              severity_score |-> max_severity,
              attack_types |-> detected,
              justifications |-> [i \in 1..Len(detected) |->
                                     ATTACK_PATTERNS[detected[i]].description],
              counter |-> IF critical THEN "critique" ELSE "suspect"]
    ELSE IF is_off_hours
    THEN [classification |-> "SUSPECT", severity_score |-> 40,
          attack_types |-> <<"OFF_HOURS_ACCESS">>,
          justifications |-> <<"Acces en dehors des heures ouvrables">>,
          counter |-> "suspect"]
    ELSE [classification |-> "NORMAL", severity_score |-> 0,
          attack_types |-> << >>, justifications |-> << >>, counter |-> "normal"]

\* Bump that only ever adds to a counter: a promoted entry stays counted as
\* normal
Bump_never_takes_back(st, counter, by) ==
    IF by < 0 THEN st
    ELSE CASE counter = "critique" -> [st EXCEPT !.critique = @ + by]
           [] counter = "suspect" -> [st EXCEPT !.suspect = @ + by]
           [] OTHER -> [st EXCEPT !.normal = @ + by]

\* self.stats[counter] += by
Bump(st, counter, by) ==
    CASE counter = "critique" -> [st EXCEPT !.critique = @ + by]
      [] counter = "suspect" -> [st EXCEPT !.suspect = @ + by]
      [] OTHER -> [st EXCEPT !.normal = @ + by]

\* analyze_log_entry where the analysis of the LLM replaces the classification
\* of the rules whenever it is SUSPECT or CRITIQUE
analyze_log_entry_llm_overrides(st, has_llm, log, outcome, t) ==
    LET detected == ScanMemo[log].detected
        is_off_hours == ScanMemo[log].is_off_hours
        rule == rule_classification(detected, is_off_hours)
        st1 == Bump([st EXCEPT !.total_logs = @ + 1,
                               !.attacks_detected =
                                   [a \in AttackTypes |-> @[a] + Occurrences(detected, a)]],
                    rule.counter, 1)
        la == IF has_llm THEN get_llm_analysis(log, detected, outcome) ELSE EmptyDict
        promote == has_llm /\ la.classification.t = "str"
                     /\ la.classification.s \in {"SUSPECT", "CRITIQUE"}
                     /\ la.severite.t = "str"
    IN  IF promote
        THEN [stats |-> st1,
              report |-> Report("returned", "", log, la.classification.s,
                                severity_to_score(la.severite.s),
                                rule.attack_types,
                                <<"LLM: " \o la.justification.s>>,
                                is_off_hours, la.recommandation, la, t)]
        ELSE [stats |-> st1,
              report |-> Report("returned", "", log, rule.classification,
                                rule.severity_score, rule.attack_types,
                                rule.justifications, is_off_hours,
                                IF has_llm THEN la.recommandation
                                ELSE JStr(SEVERITY_LEVELS[score_to_severity(
                                              rule.severity_score)].action),
                                la, t)]

\* analyze_log_entry where the error tables of detect_anomaly are consulted on
\* the statement text before the signature patterns
analyze_log_entry_table_first(st, has_llm, log, outcome, t) ==
    LET detected == ScanMemo[log].detected
        is_off_hours == ScanMemo[log].is_off_hours
        e == ErrorMemo[log]
        rule == IF e # << >>
                THEN [classification |-> e[1],
                      severity_score |-> IF e[1] = "CRITIQUE" THEN 100 ELSE 40,
                      attack_types |-> detected,
                      justifications |-> <<e[3]>>,
                      counter |-> IF e[1] = "CRITIQUE" THEN "critique" ELSE "suspect"]
                ELSE rule_classification(detected, is_off_hours)
        st1 == Bump([st EXCEPT !.total_logs = @ + 1,
                               !.attacks_detected =
                                   [a \in AttackTypes |-> @[a] + Occurrences(detected, a)]],
                    rule.counter, 1)
        la == IF has_llm THEN get_llm_analysis(log, detected, outcome) ELSE EmptyDict
    IN  [stats |-> st1,
         report |-> Report("returned", "", log, rule.classification,
                           rule.severity_score, rule.attack_types,
                           rule.justifications, is_off_hours,
                           IF has_llm THEN la.recommandation
                           ELSE JStr(SEVERITY_LEVELS[score_to_severity(
                                         rule.severity_score)].action),
                           la, t)]

\* analyze_log_entry whose classification also looks at the statistics
analyze_log_entry_stateful(st, has_llm, log, outcome, t) ==
    LET detected == ScanMemo[log].detected
        is_off_hours == ScanMemo[log].is_off_hours
        rule == rule_classification(detected, is_off_hours /\ st.suspect = 0)
        st1 == Bump([st EXCEPT !.total_logs = @ + 1,
                               !.attacks_detected =
                                   [a \in AttackTypes |-> @[a] + Occurrences(detected, a)]],
                    rule.counter, 1)
        la == IF has_llm THEN get_llm_analysis(log, detected, outcome) ELSE EmptyDict
    IN  [stats |-> st1,
         report |-> Report("returned", "", log, rule.classification,
                           rule.severity_score, rule.attack_types,
                           rule.justifications, is_off_hours,
                           IF has_llm THEN la.recommandation
                           ELSE JStr(SEVERITY_LEVELS[score_to_severity(
                                         rule.severity_score)].action),
                           la, t)]

\* the engine is consulted by analyze_log_entry only when the rules found nothing
llm_consulted_when_normal(has_llm, detected, is_off_hours) ==
    has_llm /\ detected = << >> /\ ~is_off_hours

\* if self.llm: whether analyze_log_entry calls _get_llm_analysis, which calls
\* self.llm.detect_anomaly
llm_consulted(has_llm, detected, is_off_hours) == has_llm

\* the end of analyze_log_entry, from the integration of the LLM analysis on:
\* st1 is self.stats and rule the classification after the rules, la is
\* llm_analysis
integrate_llm_analysis(st1, log, rule, is_off_hours, la, t) ==
    LET promote == la # EmptyDict /\ la.classification.t = "str"
                     /\ la.classification.s \in {"SUSPECT", "CRITIQUE"}
                     /\ rule.classification = "NORMAL"
    IN  IF ~promote
        THEN [stats |-> st1,
              report |-> Report("returned", "", log, rule.classification,
                                rule.severity_score, rule.attack_types,
                                rule.justifications, is_off_hours,
                                IF la # EmptyDict THEN la.recommandation
                                ELSE JStr(SEVERITY_LEVELS[score_to_severity(
                                              rule.severity_score)].action),
                                la, t)]
        ELSE IF la.severite.t # "str"
        THEN \* severity.upper() raises AttributeError (line 206 via line 256)
             [stats |-> st1,
              report |-> Report("raised", "AttributeError", log, "", 0, << >>, << >>,
                                is_off_hours, JNull, la, t)]
        ELSE IF la.patterns_detectes.t \notin {"list", "str"}
        THEN \* attack_types.extend raises TypeError (line 208)
             [stats |-> st1,
              report |-> Report("raised", "TypeError", log, "", 0, << >>, << >>,
                                is_off_hours, JNull, la, t)]
        ELSE LET classification == la.classification.s
                 severity_score == Max(rule.severity_score,
                                       severity_to_score(la.severite.s))
                 extension == IF la.patterns_detectes.t = "list"
                              THEN la.patterns_detectes.items
                              ELSE Chars(la.patterns_detectes.s)
             IN  [stats |-> Bump(Bump(st1, IF classification = "CRITIQUE"
                                           THEN "critique" ELSE "suspect", 1),
                                 "normal", -1),
                  report |-> Report("returned", "", log, classification, severity_score,
                                    rule.attack_types \o extension,
                                    Append(rule.justifications,
                                           "LLM: " \o la.justification.s),
                                    is_off_hours, la.recommandation, la, t)]

\* analyze_log_entry after the detection: detected and is_off_hours are what
\* detect_attack_patterns and check_off_hours_access returned, rule is the
\* classification by the rules
classify_log_entry(st, has_llm, log, detected, is_off_hours, rule, outcome, t) ==
    integrate_llm_analysis(
        Bump([st EXCEPT !.total_logs = @ + 1,
                        !.attacks_detected =
                            [a \in AttackTypes |-> @[a] + Occurrences(detected, a)]],
             rule.counter, 1),
        log, rule, is_off_hours,
        IF llm_consulted(has_llm, detected, is_off_hours)
        THEN get_llm_analysis(log, detected, outcome) ELSE EmptyDict,
        t)

\* analyze_log_entry: st is self.stats, has_llm is the truth value of self.llm,
\* outcome is what the call of self.llm.detect_anomaly does, t is datetime.now()
analyze_log_entry(st, has_llm, log, outcome, t) ==
    classify_log_entry(st, has_llm, log, ScanMemo[log].detected, ScanMemo[log].is_off_hours,
                       rule_classification(ScanMemo[log].detected, ScanMemo[log].is_off_hours),
                       outcome, t)

-----------------------------------------------------------------------------
(* OracleAnomalyDetector.detect_attack_sequences.                          *)

\* the logs of the audit file: the two injections and the read of DBA_ROLES of
\* ATTACKER, an injection of HACKER, and a harmless read of APP_USER on a
\* Saturday night
SessionLogs ==
    {l \in AttackLogs : l.username = "ATTACKER"}
    \cup {l \in AttackLogs : l.username = "HACKER" /\ l.action = "SELECT"}
    \cup {l \in BenignLogs : l.timestamp = SaturdayNight}

\* the characters of the timestamps, in the order of their code points
CodePoints == " -.0123456789:T"

RECURSIVE StrLeq(_, _)
\* a <= b for two str
StrLeq(a, b) ==
    IF a = "" THEN TRUE
    ELSE IF b = "" THEN FALSE
    ELSE LET x == IndexOf(CodePoints, Slice(a, 1, 1), 1)
             y == IndexOf(CodePoints, Slice(b, 1, 1), 1)
         IN  IF x # y THEN x < y
             ELSE StrLeq(Slice(a, 2, Len(a)), Slice(b, 2, Len(b)))

SessionTimestamps == {LogGet(l, "timestamp", "") : l \in SessionLogs}

\* StrLeq of the timestamps of the audit file, computed once
LeqMemo == [a \in SessionTimestamps, b \in SessionTimestamps |-> StrLeq(a, b)]

\* f"{log.get('username', '')}_{log.get('client_ip', '')}"
session_key(log) == LogGet(log, "username", "") \o "_" \o LogGet(log, "client_ip", "")

RECURSIVE SessionKeys(_)
\* the keys of user_sessions, in the order of their first log
SessionKeys(logs) ==
    IF logs = << >> THEN << >>
    ELSE LET init == SessionKeys(SubSeq(logs, 1, Len(logs) - 1))
             key == session_key(logs[Len(logs)])
         IN  IF \E i \in 1..Len(init) : init[i] = key THEN init ELSE Append(init, key)

\* user_sessions[key]
session_logs(logs, key) == SelectSeq(logs, LAMBDA l : session_key(l) = key)

\* the logs of a session in the order of the input
unsorted(logs) == logs

RECURSIVE sorted(_)
\* sorted(session_logs, key=lambda x: x.get('timestamp', '')): a stable sort
sorted(logs) ==
    IF logs = << >> THEN << >>
    ELSE LET init == sorted(SubSeq(logs, 1, Len(logs) - 1))
             x == logs[Len(logs)]
             k == Cardinality({i \in 1..Len(init) :
                     LeqMemo[LogGet(init[i], "timestamp", ""), LogGet(x, "timestamp", "")]})
         IN  SubSeq(init, 1, k) \o <<x>> \o SubSeq(init, k + 1, Len(init))

\* the attacks of a log, with OFF_HOURS_ACCESS for a log outside working hours
chain_attacks_with_off_hours(log) ==
    ScanMemo[log].detected
        \o (IF ScanMemo[log].is_off_hours THEN <<"OFF_HOURS_ACCESS">> ELSE << >>)

\* attacks = self.detect_attack_patterns(log)
chain_attacks(log) == ScanMemo[log].detected

RECURSIVE attack_chain(_)
\* the loop over sorted_logs
attack_chain(logs) ==
    IF logs = << >> THEN << >>
    ELSE LET log == Head(logs)
             attacks == chain_attacks(log)
         IN  (IF attacks # << >>
              THEN <<[timestamp |-> LogGet(log, "timestamp", Absent),
                      attack |-> attacks[1], log |-> log]>>
              ELSE << >>) \o attack_chain(Tail(logs))

RECURSIVE Sessions(_, _, _)
\* the loop over user_sessions.items(), from the k-th key on
Sessions(logs, keys, k) ==
    IF k > Len(keys) THEN << >>
    ELSE LET chain == attack_chain(sorted(session_logs(logs, keys[k])))
         IN  (IF Len(session_logs(logs, keys[k])) >= 3 /\ Len(chain) >= 3
              THEN <<[session |-> keys[k], attack_chain |-> chain,
                      severity |-> "CRITIQUE",
                      description |-> "Campagne d'attaque multi-etapes detectee"]>>
              ELSE << >>) \o Sessions(logs, keys, k + 1)

\* detect_attack_sequences: the sequences returned, and self.stats after the
\* detect_attack_patterns calls made on the logs of the sessions of 3 logs or more
detect_attack_sequences(st, logs) ==
    LET keys == SessionKeys(logs)
        scanned == SelectSeq(logs, LAMBDA l : Len(session_logs(logs, session_key(l))) >= 3)
        found(a) == Cardinality({i \in 1..Len(scanned) :
                                   Occurrences(chain_attacks(scanned[i]), a) > 0})
    IN  [stats |-> [st EXCEPT !.attacks_detected = [a \in AttackTypes |-> @[a] + found(a)]],
         sequences |-> Sessions(logs, keys, 1)]

\* the audit files a detector is given: the three statements of ATTACKER, the
\* three statements of the accounts SVC and SVC_BATCH, and two reads of APP_USER
AuditFiles ==
    {<<Log(WorkTime, "ATTACKER", "SELECT", "USERS",
           "SELECT * FROM users WHERE id='1' OR '1'='1' --", "10.0.0.50"),
       Log(SaturdayNight, "ATTACKER", "SELECT", "USERS",
           "SELECT * FROM users WHERE id='1' OR '1'='1' --", "10.0.0.50"),
       Log(SaturdayNight, "ATTACKER", "SELECT", "DBA_ROLES",
           "SELECT * FROM dba_roles", "10.0.0.50")>>,
      <<Log(WorkTime, "SVC", "SELECT", "DBA_USERS", "SELECT * FROM dba_users", "BATCH_srv01"),
        Log(WorkTime, "SVC_BATCH", "DROP", "TABLE", "DROP TABLE staging", "srv01"),
        Log(SaturdayNight, "SVC", "GRANT", "ROLE", "GRANT DBA TO svc", "BATCH_srv01")>>,
      <<Log(WorkTime, "APP_USER", "SELECT", "ORDERS", "SELECT * FROM orders",
            "192.168.1.100"),
        Log(SaturdayNight, "APP_USER", "SELECT", "ORDERS", "SELECT * FROM orders",
            "192.168.1.100")>>}

-----------------------------------------------------------------------------
(* OracleBackupRecommender (src/src/module7_backup_recommender.py).        *)
(* A duration is counted in half hours: 1 is the float 0.5, 2 is 1 hour.   *)

Hours(h) == 2 * h

\* the keys of BACKUP_STRATEGIES, in the insertion order of the dict
StrategyOrder == <<"CRITICAL_24_7", "PRODUCTION_STANDARD", "BUSINESS_HOURS", "DEVELOPMENT">>

\* rpo_range and rto_range of BACKUP_STRATEGIES, in hours
BACKUP_STRATEGIES ==
    [CRITICAL_24_7 |-> [rpo_range |-> <<0, 1>>, rto_range |-> <<0, 2>>],
     PRODUCTION_STANDARD |-> [rpo_range |-> <<1, 4>>, rto_range |-> <<2, 8>>],
     BUSINESS_HOURS |-> [rpo_range |-> <<4, 8>>, rto_range |-> <<8, 24>>],
     DEVELOPMENT |-> [rpo_range |-> <<24, 168>>, rto_range |-> <<24, 72>>]]

\* the tail of select_strategy: the choice by the RPO alone
select_by_rpo(rpo) ==
    IF rpo < Hours(1) THEN "CRITICAL_24_7"
    ELSE IF rpo <= Hours(4) THEN "PRODUCTION_STANDARD"
    ELSE IF rpo <= Hours(8) THEN "BUSINESS_HOURS"
    ELSE "DEVELOPMENT"

\* select_strategy without its loop over BACKUP_STRATEGIES
select_strategy_rpo_only(rpo, rto, budget) == select_by_rpo(rpo)

RECURSIVE StrategyLoop(_, _, _)
\* the loop of select_strategy from the k-th strategy on, then its tail
StrategyLoop(k, rpo, rto) ==
    IF k > Len(StrategyOrder) THEN select_by_rpo(rpo)
    ELSE LET strat == BACKUP_STRATEGIES[StrategyOrder[k]]
             rpo_min == Hours(strat.rpo_range[1])
             rpo_max == Hours(strat.rpo_range[2])
             rto_min == Hours(strat.rto_range[1])
             rto_max == Hours(strat.rto_range[2])
         IN  IF rpo_min <= rpo /\ rpo <= rpo_max /\ rto_min <= rto /\ rto <= rto_max
             THEN StrategyOrder[k]
             ELSE StrategyLoop(k + 1, rpo, rto)

\* select_strategy
select_strategy(rpo, rto, budget) == StrategyLoop(1, rpo, rto)

\* the requests: RPO and RTO on and around the bounds of the ranges, in half
\* hours, and the budget categories
RpoValues == {1, 2, 3, 7, 8, 9, 15, 16, 17, 47, 48, 96, 336, 337}
RtoValues == {1, 2, 4, 5, 15, 16, 17, 47, 48, 49, 96, 144, 145}
Budgets == {"LOW", "MEDIUM", "HIGH"}

-----------------------------------------------------------------------------
(* OracleRecoveryGuide (src/src/recovery_guide.py). The accented letters   *)
(* of the source are written without their accent, in its keywords and     *)
(* texts as in the questions and the replies handed to it.                 *)

\* the keys of self.scenarios, in the insertion order of the dict
ScenarioOrder == <<"full_recovery", "pitr", "table_recovery", "row_recovery">>

\* self.scenarios
scenarios ==
    [full_recovery |-> "Restauration complete apres crash",
     pitr |-> "Recuperation point-in-time (PITR)",
     table_recovery |-> "Recuperation de table specifique",
     row_recovery |-> "Recuperation de lignes (point-in-time au niveau data)"]

\* scenario_keywords of classify_scenario
scenario_keywords ==
    [full_recovery |->
        <<"crash", "plantage", "base perdue", "base crashee",
          "rman restore", "restauration complete", "recuperation complete",
          "base corrompue", "media failure", "perte totale", "tout restaurer",
          "base entiere", "instance down", "instance arretee">>,
     pitr |->
        <<"point in time", "point-in-time", "p.i.t.r", "pitr",
          "restaurer jusqu'a", "recuperer jusqu'a", "a une date",
          "heure specifique", "scn", "restaurer au", "recuperer au",
          "rollback time", "mars", "avril", "mai", "juin", "juillet",
          "janvier", "fevrier", "aout", "septembre", "octobre", "novembre", "decembre",
          "14h", "15h", "16h", "17h", "heure", "h ", "h:",
          "2024", "2025", "2026",
          "date", "moment precis", "point precis">>,
     table_recovery |->
        <<"table", "table supprimee", "table effacee", "table perdue",
          "restaurer table", "recuperer table", "drop table", "truncate table",
          "accidentellement supprime", "restore table", "recover table",
          "employees", "clients", "produits",
          "objet supprime", "objet perdu">>,
     row_recovery |->
        <<"ligne", "lignes", "donnees specifiques", "donnee particuliere",
          "recuperer des lignes", "restaurer des lignes", "flashback query",
          "as of timestamp", "anciennes donnees", "valeur precedente",
          "annuler modification", "rollback data", "modification erronee",
          "donnees modifiees", "donnees effacees">>]

\* the points of a keyword found in the question (lines 124-129)
keyword_points(keyword) ==
    IF keyword \in {"pitr", "point in time", "scn"} THEN 3
    ELSE IF keyword \in {"table", "ligne", "crash"} THEN 2
    ELSE 1

\* scores[scenario] of classify_scenario
scenario_score(question_lower, scenario) ==
    LET keywords == scenario_keywords[scenario]
    IN  SumSeq([i \in 1..Len(keywords) |->
                   IF Contains(question_lower, keywords[i])
                   THEN keyword_points(keywords[i]) ELSE 0])

\* classify_scenario: max(scores.items(), key=...) is the first scenario of the
\* dict that has the highest score
classify_scenario(user_question) ==
    LET question_lower == Lower(user_question)
        best == CHOOSE k \in 1..Len(ScenarioOrder) :
                    /\ \A j \in 1..Len(ScenarioOrder) :
                           scenario_score(question_lower, ScenarioOrder[j])
                              <= scenario_score(question_lower, ScenarioOrder[k])
                    /\ \A j \in 1..(k - 1) :
                           scenario_score(question_lower, ScenarioOrder[j])
                              < scenario_score(question_lower, ScenarioOrder[k])
    IN  IF scenario_score(question_lower, ScenarioOrder[best]) > 0
        THEN ScenarioOrder[best] ELSE "unknown"

\* questions_map of get_clarification_questions
questions_map ==
    [full_recovery |->
        <<"Avez-vous les backups RMAN recents ?",
          "Ou sont stockes les fichiers de backup ? (disque, bande)",
          "L'instance Oracle est-elle encore en fonctionnement ?",
          "Avez-vous les fichiers de controle (controlfiles) ?",
          "Quelle est la version de la base de donnees ?">>,
     pitr |->
        <<"Quelle est la date/heure exacte cible ? (format: JJ-MM-AAAA HH24:MI:SS)",
          "Connaissez-vous le SCN (System Change Number) cible ?",
          "Avez-vous tous les archive logs depuis le dernier backup ?",
          "Le backup a-t-il ete fait avant la date cible ?",
          "Quelle est la raison de la recuperation PITR ?">>,
     table_recovery |->
        <<"Quel est le nom exact de la table a recuperer ?",
          "Quand a-t-elle ete supprimee/modifiee ?",
          "Dans quel schema se trouve cette table ?",
          "Avez-vous active FLASHBACK TABLE ?",
          "Quelle est la taille approximative de la table ?">>,
     row_recovery |->
        <<"Quelle table contient les donnees a recuperer ?",
          "Quand les donnees ont-elles ete modifiees/supprimees ?",
          "Avez-vous besoin de recuperer toutes les lignes ou certaines specifiques ?",
          "Connaissez-vous les anciennes valeurs ?",
          "Avez-vous active UNDO_RETENTION avec une valeur suffisante ?">>]

\* get_clarification_questions
get_clarification_questions(scenario) ==
    IF scenario \in DOMAIN questions_map THEN questions_map[scenario] ELSE << >>

\* the number of characters of s from position i on that belong to class
RECURSIVE Run(_, _, _)
Run(s, i, class) ==
    IF i <= Len(s) /\ Slice(s, i, i) \in class THEN 1 + Run(s, i + 1, class) ELSE 0

DigitChars == {"0", "1", "2", "3", "4", "5", "6", "7", "8", "9"}
SpaceChars == {" ", "\t", "\n", "\r"}

\* re.match(r'^\d+[\.\)]', line)
IsNumbered(line) ==
    LET d == Run(line, 1, DigitChars)
    IN  d > 0 /\ d < Len(line) /\ Slice(line, d + 1, d + 1) \in {".", ")"}

\* re.sub(r'^\d+[\.\)]\s*', '', step)
StripNumber(step) ==
    IF IsNumbered(step)
    THEN LET d == Run(step, 1, DigitChars) + 1
         IN  Slice(step, d + 1 + Run(step, d + 1, SpaceChars), Len(step))
    ELSE step

\* the units of the regular expression of the estimated time, in its order;
\* each may be followed by an s
TimeUnits == <<"heure", "minute", "jour", "hour", "minute", "day">>

\* the length of (heures?|minutes?|jours?|hours?|minutes?|days?) at position u
\* of the lower-cased line, 0 when it does not match there
UnitAt(low, u) ==
    LET fits == {k \in 1..Len(TimeUnits) :
                    /\ u + Len(TimeUnits[k]) - 1 <= Len(low)
                    /\ Slice(low, u, u + Len(TimeUnits[k]) - 1) = TimeUnits[k]}
    IN  IF fits = {} THEN 0
        ELSE LET k == CHOOSE x \in fits : \A y \in fits : x <= y
                 e == u + Len(TimeUnits[k])
             IN  Len(TimeUnits[k]) + (IF e <= Len(low) /\ Slice(low, e, e) = "s" THEN 1 ELSE 0)

\* the length of the match of \d+[-\s]*\d*\s*(unit) at position i, 0 when none
TimeAt(line, i) ==
    LET d1 == Run(line, i, DigitChars)
        a == i + d1
        b == a + Run(line, a, SpaceChars \cup {"-"})
        c == b + Run(line, b, DigitChars)
        u == c + Run(line, c, SpaceChars)
        unit == UnitAt(Lower(line), u)
    IN  IF d1 > 0 /\ unit > 0 THEN u + unit - i ELSE 0

\* re.search(..., line, re.IGNORECASE).group(1), "" when there is no match
time_match(line) ==
    LET hits == {i \in 1..Len(line) : TimeAt(line, i) > 0}
    IN  IF hits = {} THEN ""
        ELSE LET i == CHOOSE x \in hits : \A y \in hits : x <= y
             IN  Slice(line, i, i + TimeAt(line, i) - 1)

ContainsAny(s, words) == \E w \in words : Contains(s, w)

\* the four tests _format_llm_response makes on a line (lines 206-232)
step_line(line) == IsNumbered(line) \/ ContainsAny(Lower(line), {"etape", "step"})

command_line(line) ==
    ContainsAny(Lower(line),
                {"rman>", "sql>", "flashback", "create ", "alter ", "recover", "restore"})

validation_line(line) ==
    ContainsAny(Lower(line), {"verifier", "valider", "verification", "validation"})

time_line(line) == ContainsAny(Lower(line), {"temps", "duree", "time", "estimated"})

\* _get_default_steps
get_default_steps(scenario) ==
    CASE scenario = "full_recovery" ->
           <<"Verifier la disponibilite des backups RMAN",
             "Demarrer l'instance en mode NOMOUNT",
             "Restaurer le fichier de controle (controlfile)",
             "Monter la base de donnees",
             "Restaurer les fichiers de donnees",
             "Appliquer les archive logs",
             "Ouvrir la base avec RESETLOGS">>
      [] scenario = "pitr" ->
           <<"Determiner le SCN ou timestamp cible",
             "Verifier la disponibilite des archive logs",
             "Lancer la commande RMAN avec SET UNTIL",
             "Restaurer la base",
             "Appliquer les logs jusqu'au point cible",
             "Ouvrir avec RESETLOGS">>
      [] scenario = "table_recovery" ->
           <<"Verifier si FLASHBACK TABLE est active",
             "Essayer FLASHBACK TABLE TO BEFORE DROP",
             "Sinon, utiliser TSPITR via RMAN",
             "Recuperer la table depuis backup",
             "Valider l'integrite des donnees">>
      [] OTHER -> <<"Analyser la situation", "Suivre procedure Oracle">>

\* the commands of the PITR playbook for a target time
pitr_commands(target_time) ==
    <<"RMAN> RUN {",
      "  SET UNTIL TIME \"TO_DATE('" \o target_time \o "', 'DD-MON-YYYY HH24:MI:SS')\";",
      "  RESTORE DATABASE;",
      "  RECOVER DATABASE;",
      "  ALTER DATABASE OPEN RESETLOGS;",
      "}">>

full_recovery_commands ==
    <<"RMAN> STARTUP NOMOUNT;",
      "RMAN> RESTORE CONTROLFILE FROM AUTOBACKUP;",
      "RMAN> ALTER DATABASE MOUNT;",
      "RMAN> RESTORE DATABASE;",
      "RMAN> RECOVER DATABASE;",
      "RMAN> ALTER DATABASE OPEN RESETLOGS;">>

\* _get_default_commands
get_default_commands(scenario) ==
    CASE scenario = "full_recovery" -> full_recovery_commands
      [] scenario = "pitr" -> pitr_commands("15-MAR-2024 14:30:00")
      [] OTHER -> <<"-- Commandes specifiques au scenario">>

\* _get_default_time
get_default_time(scenario) ==
    CASE scenario = "full_recovery" -> "2-6 heures"
      [] scenario = "pitr" -> "1-4 heures"
      [] scenario = "table_recovery" -> "15-60 minutes"
      [] scenario = "row_recovery" -> "5-30 minutes"
      [] OTHER -> "Variable"

\* q[:n]
FirstN(q, n) == SubSeq(q, 1, Min(Len(q), n))

\* the steps of a playbook, numbered from 1
Numbered(descriptions) ==
    [i \in 1..Len(descriptions) |-> [number |-> i, description |-> descriptions[i]]]

\* estimated_time after the loop over the lines: the match of the last line that
\* names a time and holds one, "" when there is none
RECURSIVE last_time(_)
last_time(lines) ==
    IF lines = << >> THEN ""
    ELSE LET line == lines[Len(lines)]
         IN  IF time_line(line) /\ time_match(line) # "" THEN time_match(line)
             ELSE last_time(SubSeq(lines, 1, Len(lines) - 1))

\* _format_llm_response
format_llm_response(response, scenario) ==
    LET cleaned == Strip(response)
        split == SplitLines(cleaned)
        lines == [i \in 1..Len(split) |-> Strip(split[i])]
        found_steps == SelectSeq(lines, step_line)
        found_commands == SelectSeq(lines, command_line)
        validation_points == SelectSeq(lines, validation_line)
        found_time == last_time(lines)
        steps == IF Len(found_steps) < 2 THEN get_default_steps(scenario) ELSE found_steps
        commands == IF Len(found_commands) < 1 THEN get_default_commands(scenario)
                    ELSE found_commands
        first == FirstN(steps, 10)
    IN  [steps |-> Numbered([i \in 1..Len(first) |-> Prefix(StripNumber(first[i]), 200)]),
         commands |-> FirstN(commands, 10),
         validation_points |-> FirstN(validation_points, 5),
         estimated_time |-> IF found_time = "" THEN get_default_time(scenario) ELSE found_time,
         raw_response |-> Prefix(cleaned, 500),
         structured |-> Len(steps) > 1,
         source |-> Absent]

\* the playbook of _generate_structured_guide
structured_playbook(scenario, user_inputs) ==
    LET target_time == LogGet(user_inputs, "target_time", "15-MAR-2024 14:30:00")
        table_name == LogGet(user_inputs, "table_name", "MA_TABLE")
        filled ==
            CASE scenario = "full_recovery" ->
                   [steps |-> get_default_steps("full_recovery"),
                    commands |-> full_recovery_commands,
                    validation_points |->
                        <<"Verifier que tous les backups sont VALID",
                          "Valider l'integrite des fichiers restaures",
                          "Tester l'acces aux donnees apres recuperation">>]
              [] scenario = "pitr" ->
                   [steps |->
                        <<"Determiner le point de recuperation : " \o target_time,
                          "Verifier la disponibilite des archive logs",
                          "Lancer la recuperation point-in-time",
                          "Restaurer la base jusqu'au point specifie",
                          "Appliquer les logs de restauration",
                          "Ouvrir la base avec RESETLOGS">>,
                    commands |-> pitr_commands(target_time),
                    validation_points |->
                        <<"Verifier que les donnees correspondent au point dans le temps",
                          "Confirmer l'absence de donnees apres le point cible",
                          "Tester les applications metier">>]
              [] scenario = "table_recovery" ->
                   [steps |->
                        <<"Verifier si FLASHBACK TABLE est active",
                          "Tenter FLASHBACK TABLE " \o table_name \o " TO BEFORE DROP",
                          "Si echec, utiliser TSPITR via RMAN",
                          "Recuperer la table " \o table_name \o " depuis backup",
                          "Valider l'integrite des donnees">>,
                    commands |->
                        <<"FLASHBACK TABLE " \o table_name \o " TO BEFORE DROP;",
                          "SELECT COUNT(*) FROM " \o table_name \o "; -- Validation">>,
                    validation_points |->
                        <<"Verifier le nombre de lignes recuperees",
                          "Valider les contraintes d'integrite",
                          "Tester les acces applicatifs">>]
              [] OTHER -> [steps |-> << >>, commands |-> << >>, validation_points |-> << >>]
    IN  [steps |-> Numbered(filled.steps),
         commands |-> filled.commands,
         validation_points |-> filled.validation_points,
         estimated_time |-> get_default_time(scenario),
         raw_response |-> Absent,
         structured |-> TRUE,
         source |-> "local_fallback"]

\* clarification_answers as handle_user_question gets them: None, or a dict
NoAnswers == [given |-> FALSE, values |-> << >>]
Given(values) == [given |-> TRUE, values |-> values]

\* the questions asked: the three of test_llm_integration, one about deleted
\* rows, one about a block of RMAN commands, and one that is not about recovery
Questions ==
    {"Comment recuperer ma base au 15 mars 14h ?",
     "Ma base Oracle a crashe apres une panne electrique",
     "J'ai supprime la table CLIENTS par erreur ce matin",
     "Comment annuler un DELETE sur quelques lignes ?",
     "Crash de l'instance pendant le bloc RMAN RUN {",
     "Comment creer un utilisateur ?"}

\* the clarification answers given: none, an empty dict, and the three dicts
\* of test_llm_integration
Answers ==
    {NoAnswers,
     Given(<< >>),
     Given([target_time |-> "15-MAR-2024 14:00:00",
            situation |-> "Suppression accidentelle de donnees critiques"]),
     Given([backups |-> "Backups RMAN complets sur disque NAS",
            situation |-> "Crash complet suite a coupure de courant"]),
     Given([table_name |-> "CLIENTS",
            situation |-> "DROP TABLE execute accidentellement"])}

\* what the model may reply to the prompt of a guide
GuideReplies ==
    {OllamaFails,
     OllamaOk("Voici le playbook :\n1. Verifier les backups RMAN\n2) Demarrer en NOMOUNT\n"
              \o "3. Ouvrir la base\nRMAN> RESTORE DATABASE;\nRMAN> RECOVER DATABASE;\n"
              \o "Verifier l'ouverture de la base\nTemps estime : 2-4 heures"),
     OllamaOk("1. Lancer FLASHBACK TABLE\n2. Controler le nombre de lignes\n"),
     OllamaOk("Je ne peux pas vous aider sans plus de details.")}

\* the outcomes of the two model calls of one generate
GuidePairs ==
    {[primary |-> p, fallback |-> OllamaFails] : p \in GuideReplies}
        \cup {[primary |-> OllamaFails, fallback |-> f] : f \in GuideReplies}

\* classify_scenario of every question, computed once
ClassifyMemo == [question \in Questions |-> classify_scenario(question)]

\* the texts generate may return for the prompt of a guide
GuideTexts == {generate(pair.primary, pair.fallback).text : pair \in GuidePairs}

\* _format_llm_response of every such text for every scenario, computed once
PlaybookMemo ==
    [c \in {[response |-> r, scenario |-> sc] : r \in GuideTexts, sc \in DOMAIN scenarios} |->
        format_llm_response(c.response, c.scenario)]

\* the position of the first character of s from i on that belongs to class,
\* 0 when there is none
FirstOf(s, i, class) ==
    LET found == {j \in i..Len(s) : Slice(s, j, j) \in class}
    IN  IF found = {} THEN 0 ELSE CHOOSE j \in found : \A k \in found : j <= k

\* what text.format(**keys) does with the replacement fields of text from
\* position i on: "ok" when it returns, else the exception it raises.  Doubled
\* braces are literal; a lone '}' and a '{' that is not closed raise ValueError;
\* a field without a name or with a number raises IndexError, as format gets
\* no positional argument; a name that is not a key raises KeyError
RECURSIVE format_from(_, _, _)
format_from(text, i, keys) ==
    LET j == FirstOf(text, i, {"{", "}"})
    IN  IF j = 0 THEN "ok"
        ELSE IF j < Len(text) /\ Slice(text, j + 1, j + 1) = Slice(text, j, j)
        THEN format_from(text, j + 2, keys)
        ELSE IF Slice(text, j, j) = "}" THEN "ValueError"
        ELSE LET k == FirstOf(text, j + 1, {"{", "}"})
                 stop == FirstOf(text, j + 1, {"!", ":", ".", "[", "}"})
                 name == Slice(text, j + 1, stop - 1)
             IN  IF k = 0 \/ Slice(text, k, k) = "{" THEN "ValueError"
                 ELSE IF Run(name, 1, DigitChars) = Len(name) THEN "IndexError"
                 ELSE IF name \notin keys THEN "KeyError"
                 ELSE format_from(text, k + 1, keys)

format_status(text, keys) == format_from(text, 1, keys)

\* the texts of the user that _get_local_prompt writes into the prompt of the
\* scenario, in the order of the prompt; the rest of the prompt holds no brace
local_prompt_inputs(scenario, user_inputs) ==
    CASE scenario = "full_recovery" ->
           LogGet(user_inputs, "situation", "Crash complet de la base de donnees")
               \o "\n" \o LogGet(user_inputs, "backups", "Backup RMAN complet sur disque")
      [] scenario = "pitr" ->
           LogGet(user_inputs, "target_time", "Non specifiee")
               \o "\n" \o LogGet(user_inputs, "situation",
                                 "Recuperation a un point precis dans le temps")
      [] OTHER -> ""

\* generate_recovery_guide: llm.prompts holds no 'recovery_guidance' (the
\* default prompts of the engine), so that the prompt is the local one;
\* format raises what is not a KeyError; with an engine the playbook is read
\* from the reply of generate(primary, fallback), without one it is the local one
generate_recovery_guide(scenario, user_inputs, has_llm, primary, fallback, t) ==
    LET status == format_status(local_prompt_inputs(scenario, user_inputs),
                                DOMAIN user_inputs)
    IN  IF status \in {"ValueError", "IndexError"}
        THEN [raised |-> TRUE, error |-> status, guide |-> Absent]
        ELSE [raised |-> FALSE, error |-> "",
              guide |->
                  IF has_llm
                  THEN [scenario |-> scenarios[scenario],
                        playbook |-> PlaybookMemo[[response |-> generate(primary, fallback).text,
                                                   scenario |-> scenario]],
                        model_used |-> default_model,
                        timestamp |-> t,
                        language |-> "french",
                        llm_generated |-> TRUE]
                  ELSE [scenario |-> scenarios[scenario],
                        playbook |-> structured_playbook(scenario, user_inputs),
                        model_used |-> "local_fallback",
                        timestamp |-> t,
                        language |-> "french",
                        llm_generated |-> FALSE]]

\* bool(clarification_answers)
Truthy(answers) == answers.given /\ DOMAIN answers.values # {}

\* dict.update
Update(d, other) ==
    [k \in DOMAIN d \cup DOMAIN other |-> IF k \in DOMAIN other THEN other[k] ELSE d[k]]

\* the return of handle_user_question for the scenario found and for what
\* generate_recovery_guide made
question_result(scenario, answers, made) ==
    IF scenario = "unknown"
    THEN [raised |-> FALSE, error |-> "",
          result |-> [error |-> "Scenario non reconnu",
                      suggestion |-> "Veuillez preciser votre besoin de recuperation",
                      possible_scenarios |->
                          [i \in 1..Len(ScenarioOrder) |-> scenarios[ScenarioOrder[i]]]]]
    ELSE IF made.raised
    THEN [raised |-> TRUE, error |-> made.error, result |-> Absent]
    ELSE [raised |-> FALSE, error |-> "",
          result |-> [module |-> "Module 8 - Recovery Guide",
                      scenario |-> scenario,
                      scenario_name |-> scenarios[scenario],
                      guide |-> made.guide,
                      clarification_questions |-> get_clarification_questions(scenario),
                      needs_clarification |->
                          Len(get_clarification_questions(scenario)) > 0
                              /\ ~Truthy(answers)]]

\* user_inputs of handle_user_question
question_inputs(user_question, answers, t) ==
    IF Truthy(answers)
    THEN Update([situation |-> user_question, timestamp |-> ToString(t)], answers.values)
    ELSE [situation |-> user_question, timestamp |-> ToString(t)]

\* handle_user_question
handle_user_question(user_question, answers, has_llm, primary, fallback, t) ==
    question_result(ClassifyMemo[user_question], answers,
                    generate_recovery_guide(ClassifyMemo[user_question],
                                            question_inputs(user_question, answers, t),
                                            has_llm, primary, fallback, t))

-----------------------------------------------------------------------------
(* The chatbot (src/src/pages/chatbot.py).  As everywhere in this module,  *)
(* the accented letters of keywords and questions are written without      *)
(* their accent.                                                           *)

\* any(keyword in text for keyword in keywords)
AnyIn(keywords, text) == \E i \in 1..Len(keywords) : Contains(text, keywords[i])

data_keywords ==
    <<"combien", "nombre", "total", "liste", "montre-moi", "affiche",
      "quels sont", "quelle est", "qui sont", "donne-moi", "cherche",
      "trouve", "verifie", "controle", "statut", "etat actuel",
      "actuellement", "maintenant", "en ce moment", "reel", "vrai",
      "actif", "connecte", "session", "utilisateur connecte",
      "tablespace", "espace disque", "memoire", "cpu", "performance actuelle">>

status_keywords ==
    <<"statut", "etat", "status", "actif", "running", "demarre",
      "arrete", "stopped", "connecte", "disponible", "accessible">>

analysis_keywords ==
    <<"pourquoi lent", "optimise", "audit", "securite", "backup", "recuperation">>

\* is_database_specific_question
is_database_specific_question(prompt_lower) ==
    /\ AnyIn(data_keywords, prompt_lower) \/ AnyIn(status_keywords, prompt_lower)
    /\ ~AnyIn(analysis_keywords, prompt_lower)

backup_keywords ==
    <<"backup", "sauvegarde", "sauvegarder", "faire backup",
      "comment sauvegarder", "creer backup", "mettre en backup",
      "rman", "save", "sauvegarde oracle", "backup base",
      "sauvegarde base", "sauvegarde donnees", "strategie backup",
      "c'est quoi rman", "qu'est-ce que rman", "rman c'est quoi",
      "explique rman", "rman explication">>

query_keywords ==
    <<"lent", "performance", "optimiser", "optimise", "requete", "requete", "rquete", "sql",
      "select", "count", "temps", "cout", "plan d'execution",
      "index", "optimisation", "slow", "fast", "vitesse",
      "pourquoi lent", "requete lente", "requete lente", "rquete lente", "ameliorer requete",
      "comment optimiser", "comment optimise", "optimisation", "tuning",
      "requete lente", "requete lente", "rquete lente", "query slow">>

security_keywords ==
    <<"risque", "securite", "audit", "score", "utilisateur",
      "privilege", "dba", "role", "mot de passe", "profil",
      "configuration", "danger", "vulnerabilite", "attaquer",
      "proteger", "securiser", "est-ce securise">>

anomaly_keywords ==
    <<"anomalie", "log", "suspect", "intrusion", "attaque",
      "injection", "brute force", "escalade", "hacker",
      "malicieux", "anormal", "etrange", "suspicieux">>

recovery_keywords ==
    <<"recuperer", "restaurer", "crash", "pitr", "point in time",
      "table supprimee", "mars", "avril", "mai", "juin",
      "heure", "date", "restauration", "recovery", "guide",
      "recuperation", "perte donnees", "base crashee">>

generic_keywords == <<"base", "database", "oracle", "etat", "status">>

\* generate_intelligent_response: the handler whose answer it returns
generate_intelligent_response(prompt) ==
    LET prompt_lower == Strip(Lower(prompt))
    IN  IF is_database_specific_question(prompt_lower) THEN "handle_database_query"
        ELSE IF AnyIn(backup_keywords, prompt_lower) THEN "handle_backup_strategy"
        ELSE IF AnyIn(query_keywords, prompt_lower) THEN "handle_query_optimization"
        ELSE IF AnyIn(security_keywords, prompt_lower) THEN "handle_security_audit"
        ELSE IF AnyIn(anomaly_keywords, prompt_lower) THEN "handle_anomaly_detection"
        ELSE IF AnyIn(recovery_keywords, prompt_lower) THEN "handle_recovery_guide"
        ELSE IF AnyIn(generic_keywords, prompt_lower) THEN "database_help"
        ELSE "get_contextual_help"

\* the quick questions of the page
quick_questions ==
    {"Pourquoi ma requete SELECT COUNT(*) FROM test_orders est lente?",
     "Y a-t-il des risques de securite detectes?",
     "Quelle strategie de backup recommandez-vous?",
     "Comment recuperer une table supprimee?",
     "Y a-t-il des anomalies dans les logs?",
     "Quel est le score de securite actuel?",
     "Montre-moi les requetes les plus lentes",
     "Guide pour recuperer ma base au 15 mars 14h"}

\* the questions of test_chatbot.py
test_questions ==
    {"comment faire une sauvegarde ?",
     "pourquoi ma requete est lente",
     "optimise cette requete SELECT COUNT(*) FROM test_orders",
     "ma requete est trop lente",
     "comment accelerer ma requete SQL",
     "plan d'execution de ma requete",
     "requete performante"}

\* the questions asked: those of the page and of the test, those the answers
\* of the chatbot suggest, and others
Prompts ==
    quick_questions \cup test_questions
        \cup {"Quels sont les risques detectes?",
              "Combien de sessions sont actives?",
              "Comment sauvegarder avec RMAN?",
              "Quelle est la meilleure facon de faire une sauvegarde ?",
              "Donne-moi la liste des tables",
              "Quelle version d'Oracle ?",
              "  Bonjour  ",
              "Que sais-tu faire ?"}

\* generate_intelligent_response of every question, computed once
RouteMemo == [prompt \in Prompts |-> generate_intelligent_response(prompt)]

\* st.session_state.messages when the page is first shown
Greeting == <<[role |-> "assistant", content |-> "Bonjour!"]>>

-----------------------------------------------------------------------------
(* OracleRAGSetup (src/src/rag_setup.py).  A content is a line of words of *)
(* the same length, separated by single spaces, that _clean_text keeps as  *)
(* it is; it is given by the number of its words and their length.         *)

\* a file of data/docs/ as _get_document_hash sees it, and its content
File(name, st_size, st_mtime, words, word_len) ==
    [has_path |-> TRUE, name |-> name, st_size |-> st_size, st_mtime |-> st_mtime,
     words |-> words, word_len |-> word_len]

\* a content handed to add_document without file_path
Text(words, word_len) ==
    [has_path |-> FALSE, name |-> "", st_size |-> 0, st_mtime |-> 0,
     words |-> words, word_len |-> word_len]

\* len() of a text of so many words
TextLen(words, word_len) == IF words = 0 THEN 0 ELSE words * word_len + (words - 1)

\* hashlib.sha256(text.encode()).hexdigest(): different texts have different
\* digests
sha256(text) == "sha256:" \o text

\* _get_document_hash
get_document_hash(file) ==
    sha256(file.name \o "_" \o ToString(file.st_size) \o "_" \o ToString(file.st_mtime))

\* _chunk_text: the number of chunks.  A chunk starts every 450 words and holds
\* up to 500 words; it is kept when it has more than 300 characters
chunk_count(words, word_len) ==
    Cardinality({i \in 0..((words - 1) \div 450) :
                    /\ 450 * i < words
                    /\ TextLen(Min(500, words - 450 * i), word_len) > 300})

batch_size == 100

\* _is_document_processed that finds no document
is_document_processed_never(processed_docs, file) == FALSE

\* _is_document_processed
is_document_processed(processed_docs, file) == get_document_hash(file) \in processed_docs

\* add_document(title, content, metadata, file_path): doc is the file read (or
\* a content without file_path), fail_at the batch whose index.upsert raises
\* (0 when none does); the exception leaves add_document
add_document(setup, doc, fail_at) ==
    LET hash == get_document_hash(doc)
        length == TextLen(doc.words, doc.word_len)
        chunks == chunk_count(doc.words, doc.word_len)
        total_batches == (chunks + batch_size - 1) \div batch_size
    IN  IF doc.has_path /\ is_document_processed(setup.processed_docs, doc)
        THEN [setup EXCEPT !.stats.skipped_duplicates = @ + 1,
                           !.last = [op |-> "add_document", doc |-> doc, outcome |-> "skipped",
                                     upserted |-> 0, total_batches |-> 0]]
        ELSE IF length < 200
        THEN [setup EXCEPT !.stats.failed_documents = @ + 1,
                           !.last = [op |-> "add_document", doc |-> doc,
                                     outcome |-> "too_short",
                                     upserted |-> 0, total_batches |-> 0]]
        ELSE IF chunks = 0
        THEN [setup EXCEPT !.stats.total_chars = @ + length,
                           !.stats.failed_documents = @ + 1,
                           !.last = [op |-> "add_document", doc |-> doc,
                                     outcome |-> "no_chunks",
                                     upserted |-> 0, total_batches |-> 0]]
        ELSE IF fail_at \in 1..total_batches
        THEN [setup EXCEPT !.stats.total_chars = @ + length,
                           !.upserts = @ + (fail_at - 1),
                           !.last = [op |-> "add_document", doc |-> doc, outcome |-> "raised",
                                     upserted |-> fail_at - 1,
                                     total_batches |-> total_batches]]
        ELSE [setup EXCEPT !.stats.total_chars = @ + length,
                           !.stats.total_documents = @ + 1,
                           !.stats.total_chunks = @ + chunks,
                           !.processed_docs = IF doc.has_path THEN @ \cup {hash} ELSE @,
                           !.upserts = @ + total_batches,
                           !.completed = IF doc.has_path
                                         THEN [@ EXCEPT ![hash] = @ + 1] ELSE @,
                           !.last = [op |-> "add_document", doc |-> doc, outcome |-> "added",
                                     upserted |-> total_batches,
                                     total_batches |-> total_batches]]

\* clear_namespace: index.delete may raise, and so may dedup_file.unlink after
\* the namespace was emptied; the exception is caught and processed_docs stays
clear_namespace(setup, outcome) ==
    [setup EXCEPT !.processed_docs = IF outcome = "cleared" THEN {} ELSE @,
                  !.upserts = IF outcome = "delete_raises" THEN @ ELSE 0,
                  !.completed = [h \in DOMAIN @ |-> 0],
                  !.last = [op |-> "clear_namespace", doc |-> << >>, outcome |-> outcome,
                            upserted |-> 0, total_batches |-> 0]]

ClearOutcomes == {"cleared", "delete_raises", "unlink_raises"}

\* the documents added: a guide of 46000 words (103 chunks, 2 batches), notes of
\* 600 words (2 chunks), the same notes after a change, a file of 20 words
\* (under 200 characters), a file of 40 words (239 characters, no chunk above
\* 300), and the notes given as a text without file_path
Documents ==
    {File("guide.pdf", 912000, 1700000000, 46000, 6),
     File("notes.txt", 3599, 1700000100, 600, 5),
     File("notes.txt", 3605, 1700000200, 601, 5),
     File("short.txt", 99, 1700000300, 20, 4),
     File("sparse.md", 239, 1700000400, 40, 5),
     Text(600, 5)}

\* the hashes of the files
DocumentHashes == {get_document_hash(doc) : doc \in {d \in Documents : d.has_path}}

StatsOfNewSetup ==
    [total_documents |-> 0, total_chunks |-> 0, failed_documents |-> 0,
     skipped_duplicates |-> 0, total_chars |-> 0]

-----------------------------------------------------------------------------
(* pages/chatbot.py: execute_custom_query.                                 *)

\* s.startswith(prefixes), prefixes a tuple of strings
startswith(s, prefixes) ==
    \E k \in 1..Len(prefixes) :
        Len(prefixes[k]) <= Len(s) /\ Slice(s, 1, Len(prefixes[k])) = prefixes[k]

\* the commands execute_custom_query refuses
forbidden_commands ==
    <<"DROP", "TRUNCATE", "DELETE", "UPDATE", "INSERT", "CREATE", "ALTER">>

max_rows == 50

\* what the connection does in one call: connection.cursor() or
\* cursor.execute(sql_query) raises, or the statement runs and fetchall()
\* returns rows rows
QueryOutcomes ==
    {[raises |-> "cursor", rows |-> 0], [raises |-> "execute", rows |-> 0]}
        \cup {[raises |-> "none", rows |-> n] : n \in {0, 3, 60}}

\* queries that only read
ReadOnlySelects ==
    {"SELECT banner FROM v$version",
     "  select username from all_users order by username\n"}

\* statements that change the data, the schema or the privileges
ModifyingStatements ==
    {"DROP TABLE employees", "truncate table employees",
     " DELETE FROM employees WHERE salary > 0", "UPDATE employees SET salary = 0",
     "INSERT INTO employees (id) VALUES (1)", "CREATE TABLE t (id NUMBER)",
     "ALTER USER scott IDENTIFIED BY tiger",
     "GRANT DBA TO scott",
     "MERGE INTO employees e USING t ON (e.id = t.id) WHEN MATCHED THEN UPDATE SET e.salary = 0",
     "BEGIN DELETE FROM employees; END;", "/* purge */ DELETE FROM employees",
     "RENAME employees TO old_employees"}

Statements == ReadOnlySelects \cup ModifyingStatements

\* the validation of execute_custom_query: TRUE when the statement goes on to
\* cursor.execute
execute_allowed(sql_upper) == ~startswith(sql_upper, forbidden_commands)

\* execute_custom_query(connection, sql_query) on the database db: executed
\* holds the statements given to cursor.execute, response the message returned
\* (its heading, the number of rows of its table, the rows left out and whether
\* the cursor was closed)
execute_custom_query(db, sql_query, outcome) ==
    LET sql_upper == Strip(Upper(sql_query))
        Response(heading, shown, others, closed) ==
            [heading |-> heading, sql_query |-> sql_query, shown |-> shown,
             others |-> others, closed |-> closed]
    IN  IF outcome.raises = "cursor"
        THEN [db EXCEPT !.response = Response("Erreur d'execution SQL", 0, 0, FALSE)]
        ELSE IF ~execute_allowed(sql_upper)
        THEN [db EXCEPT !.response = [Response("Requete non autorisee", 0, 0, FALSE)
                                        EXCEPT !.sql_query = ""]]
        ELSE IF outcome.raises = "execute"
        THEN [db EXCEPT !.executed = Append(@, sql_query),
                        !.response = Response("Erreur d'execution SQL", 0, 0, FALSE)]
        ELSE IF startswith(sql_upper, <<"SELECT">>)
        THEN IF outcome.rows = 0
             THEN [db EXCEPT !.executed = Append(@, sql_query),
                             !.response = Response("Resultat de la requete", 0, 0, FALSE)]
             ELSE [db EXCEPT !.executed = Append(@, sql_query),
                             !.response =
                                 Response("Resultat de la requete",
                                          IF outcome.rows > max_rows THEN max_rows
                                          ELSE outcome.rows,
                                          IF outcome.rows > max_rows
                                          THEN outcome.rows - max_rows ELSE 0,
                                          TRUE)]
        ELSE [db EXCEPT !.executed = Append(@, sql_query),
                        !.response = Response("Requete executee avec succes", 0, 0, FALSE)]

-----------------------------------------------------------------------------
(* The state machine.                                                      *)

NoLog == Log("", "", "", "", "", "")
NoReport == Report("none", "", NoLog, "", 0, << >>, << >>, FALSE, JNull, EmptyDict, 0)
NoSecurity == [status |-> "none", error |-> "", score |-> 0, risks |-> << >>,
               model_used |-> Absent,
               scoring_method |-> Absent, model_calls |-> 0, lines |-> << >>]
NoGuide == [status |-> "none"]
NoChat == [status |-> "none", prompt |-> "", handler |-> "", messages |-> Greeting]
NoRag ==
    [processed_docs |-> {}, stats |-> StatsOfNewSetup, upserts |-> 0,
     completed |-> [h \in DocumentHashes |-> 0], calls |-> 0,
     last |-> [op |-> "none", doc |-> << >>, outcome |-> "", upserted |-> 0,
               total_batches |-> 0]]
NoDatabase ==
    [executed |-> << >>, calls |-> 0, sql_query |-> "",
     outcome |-> [raises |-> "none", rows |-> 0],
     response |-> [heading |-> "", sql_query |-> "", shown |-> 0, others |-> 0,
                   closed |-> FALSE]]
NoStrategy == [status |-> "none", rpo |-> 0, rto |-> 0, budget |-> "", strategy |-> ""]
NoScan == [status |-> "none", logs |-> << >>, sequences |-> << >>]
NoCall == [op |-> "none", input |-> "", primary |-> OllamaFails, fallback |-> OllamaFails,
           result |-> << >>]

\* self.stats of a fresh detector
InitStats ==
    [total_logs |-> 0, normal |-> 0, suspect |-> 0, critique |-> 0,
     attacks_detected |-> [a \in AttackTypes |-> 0]]

\* OracleAnomalyDetector.__init__ and a fresh LLMEngine
Init ==
    /\ llm \in {"none", "ollama", "text"}
    /\ stats = InitStats
    /\ report = NoReport
    /\ calls = 0
    /\ returned = 0
    /\ consulted = 0
    /\ now = 0
    /\ config = << >>
    /\ security = NoSecurity
    /\ engine = NoCall
    /\ audit = << >>
    /\ scan = NoScan
    /\ backup = NoStrategy
    /\ recovery = NoGuide
    /\ chat = NoChat
    /\ rag = NoRag
    /\ database = NoDatabase

\* one call detector.analyze_log_entry(log)
AnalyzeLogEntry(log, outcome) ==
    /\ calls < MaxBatch
    /\ LET r == analyze_log_entry(stats, llm # "none", log, outcome, now)
       IN  /\ stats' = r.stats
           /\ report' = r.report
           /\ returned' = IF r.report.status = "returned" THEN returned + 1 ELSE returned
    /\ calls' = calls + 1
    /\ consulted' = consulted
         + (IF llm_consulted(llm # "none", ScanMemo[log].detected, ScanMemo[log].is_off_hours)
            THEN 1 ELSE 0)
    /\ UNCHANGED <<llm, now, config, security, engine, audit, scan, backup, recovery, chat, rag, database>>

\* time passes between two calls
Tick ==
    /\ now < MaxClock
    /\ now' = now + 1
    /\ UNCHANGED <<llm, stats, report, calls, returned, consulted, config, security, engine, audit, scan, backup, recovery, chat, rag, database>>

Next ==
    \/ \E log \in Logs : \E outcome \in LlmOutcomes(llm) : AnalyzeLogEntry(log, outcome)
    \/ Tick

Spec == Init /\ [][Next]_vars

\* detect_anomaly of every text of AnomalyTexts, computed once
AnomalyMemo ==
    [text \in AnomalyTexts, pf \in OllamaPairs |->
        detect_anomaly(PyStr(text), pf.primary, pf.fallback)]

\* generate for every outcome of the model calls, computed once
GenerateMemo == [pf \in OllamaPairs |-> generate(pf.primary, pf.fallback)]

\* one call engine.detect_anomaly(text)
DetectAnomaly(text, primary, fallback) ==
    /\ engine' = [op |-> "detect_anomaly", input |-> text, primary |-> primary,
                  fallback |-> fallback,
                  result |-> AnomalyMemo[text, [primary |-> primary, fallback |-> fallback]]]
    /\ UNCHANGED <<llm, stats, report, calls, returned, consulted, now, config, security, audit, scan, backup, recovery, chat, rag, database>>

\* one call engine.generate(prompt)
Generate(primary, fallback) ==
    /\ engine' = [op |-> "generate", input |-> "", primary |-> primary,
                  fallback |-> fallback,
                  result |-> GenerateMemo[[primary |-> primary, fallback |-> fallback]]]
    /\ UNCHANGED <<llm, stats, report, calls, returned, consulted, now, config, security, audit, scan, backup, recovery, chat, rag, database>>

NextEngine ==
    \/ \E text \in AnomalyTexts : \E pf \in OllamaPairs : DetectAnomaly(text, pf.primary, pf.fallback)
    \/ \E pf \in OllamaPairs : Generate(pf.primary, pf.fallback)

\* an LLMEngine on its own
InitEngine == Init /\ llm = "none"

SpecEngine == InitEngine /\ [][NextEngine]_vars

\* a role, a privilege or a password policy is added to the configuration
Grant(line) ==
    /\ Len(config) < MaxLines
    /\ config' = Append(config, line)
    /\ UNCHANGED <<llm, stats, report, calls, returned, consulted, now, security, engine, audit, scan, backup, recovery, chat, rag, database>>

\* perform_basic_security_analysis of the security page: the keyword risks (by
\* title) and the score max(0, 100 - 40/20/10 per risk CRITIQUE/HAUTE/other)
perform_basic_security_analysis(config_text) ==
    LET up == Upper(config_text)
        risks_found ==
            (IF Contains(up, "DBA")
             THEN <<[severity |-> "CRITIQUE", title |-> "Role DBA sur compte applicatif"]>>
             ELSE << >>)
            \o (IF Contains(up, "ANY TABLE")
                THEN <<[severity |-> "HAUTE", title |-> "Privileges ANY TABLE excessifs"]>>
                ELSE << >>)
            \o (IF Contains(up, "DEFAULT")
                THEN <<[severity |-> "MOYENNE", title |-> "Profil de securite par defaut"]>>
                ELSE << >>)
        penalty == [i \in 1..Len(risks_found) |->
                      IF risks_found[i].severity = "CRITIQUE" THEN 40
                      ELSE IF risks_found[i].severity = "HAUTE" THEN 20 ELSE 10]
    IN  [status |-> "displayed", error |-> "", score |-> Max(0, 100 - SumSeq(penalty)),
         risks |-> [i \in 1..Len(risks_found) |-> risks_found[i].title],
         model_used |-> Absent, scoring_method |-> "basic", model_calls |-> 0]

\* perform_basic_security_analysis of the text of every configuration
BasicMemo == [text \in ConfigTexts |-> perform_basic_security_analysis(text)]

\* the security page analyses the configuration without the engine
BasicAnalysis ==
    /\ security' = BasicMemo[ConfigText(config)] @@ [lines |-> config]
    /\ UNCHANGED <<llm, stats, report, calls, returned, consulted, now, config, engine, audit, scan, backup, recovery, chat, rag, database>>

\* one call engine.assess_security(config)
AssessSecurity(primary, fallback) ==
    /\ security' = assess_security(ConfigText(config), primary, fallback)
                       @@ [lines |-> config]
    /\ UNCHANGED <<llm, stats, report, calls, returned, consulted, now, config, engine, audit, scan, backup, recovery, chat, rag, database>>

NextSecurity ==
    \/ \E line \in ConfigLines : Grant(line)
    \/ \E pf \in SecurityPairs : AssessSecurity(pf.primary, pf.fallback)
    \/ BasicAnalysis

SpecSecurity == InitEngine /\ [][NextSecurity]_vars

\* a log is appended to the audit file
Record(log) ==
    /\ Len(audit) < MaxSession
    /\ audit' = Append(audit, log)
    /\ UNCHANGED <<llm, stats, report, calls, returned, consulted, now, config, security, engine, scan, backup, recovery, chat, rag, database>>

\* one call detector.detect_attack_sequences(logs) on the logs of the file
DetectAttackSequences ==
    /\ calls < MaxBatch
    /\ LET r == detect_attack_sequences(stats, audit)
       IN  /\ stats' = r.stats
           /\ scan' = [status |-> "returned", logs |-> audit, sequences |-> r.sequences]
    /\ calls' = calls + 1
    /\ UNCHANGED <<llm, report, returned, consulted, now, config, security, engine, audit, backup, recovery, chat, rag, database>>

NextSequences ==
    \/ \E log \in SessionLogs : Record(log)
    \/ DetectAttackSequences

SpecSequences == InitEngine /\ [][NextSequences]_vars

\* one call recommender.select_strategy(rpo, rto, budget)
SelectStrategy(rpo, rto, budget) ==
    /\ backup' = [status |-> "returned", rpo |-> rpo, rto |-> rto, budget |-> budget,
                  strategy |-> select_strategy(rpo, rto, budget)]
    /\ UNCHANGED <<llm, stats, report, calls, returned, consulted, now, config, security, engine, audit, scan, recovery, chat, rag, database>>

NextBackup ==
    \E rpo \in RpoValues : \E rto \in RtoValues : \E budget \in Budgets :
        SelectStrategy(rpo, rto, budget)

SpecBackup == InitEngine /\ [][NextBackup]_vars

\* the calls of handle_user_question the model makes; the clock stays at 0
\* while the guide is questioned
GuideCalls ==
    {[question |-> q, answers |-> a, has_llm |-> h, pair |-> p, t |-> 0] :
        q \in Questions, a \in Answers, h \in BOOLEAN, p \in GuidePairs}

\* handle_user_question on each of these calls
GuideMemo ==
    [c \in GuideCalls |->
        handle_user_question(c.question, c.answers, c.has_llm, c.pair.primary,
                             c.pair.fallback, c.t)]

\* one call guide.handle_user_question(question, answers); pair is what the
\* model calls of the engine do, if there is an engine
HandleUserQuestion(question, answers, pair) ==
    /\ LET r == GuideMemo[[question |-> question, answers |-> answers,
                           has_llm |-> llm # "none", pair |-> pair, t |-> now]]
       IN  recovery' = [status |-> IF r.raised THEN "raised" ELSE "returned",
                        question |-> question, answers |-> answers,
                        error |-> r.error, result |-> r.result]
    /\ UNCHANGED <<llm, stats, report, calls, returned, consulted, now, config, security,
                   engine, audit, scan, backup, chat, rag, database>>

NextRecovery ==
    \E question \in Questions : \E answers \in Answers : \E pair \in GuidePairs :
        HandleUserQuestion(question, answers, pair)

\* a guide without engine, or with the engine of llm_engine.py
InitRecovery == Init /\ llm \in {"none", "ollama"}

SpecRecovery == InitRecovery /\ [][NextRecovery]_vars

\* the user enters a question in the chat input of the page: the question and
\* the answer of generate_intelligent_response join the history
Ask(prompt) ==
    /\ Len(chat.messages) < 1 + 2 * MaxQuestions
    /\ chat' = [status |-> "answered", prompt |-> prompt, handler |-> RouteMemo[prompt],
                messages |-> chat.messages
                                \o <<[role |-> "user", content |-> prompt],
                                     [role |-> "assistant", content |-> RouteMemo[prompt]]>>]
    /\ UNCHANGED <<llm, stats, report, calls, returned, consulted, now, config, security,
                   engine, audit, scan, backup, recovery, rag, database>>

NextChatbot == \E prompt \in Prompts : Ask(prompt)

SpecChatbot == InitEngine /\ [][NextChatbot]_vars

\* an audit file is loaded in place of the logs collected so far
LoadAuditLogs(file) ==
    /\ audit' = file
    /\ UNCHANGED <<llm, stats, report, calls, returned, consulted, now, config, security,
                   engine, scan, backup, recovery, chat, rag, database>>

\* one detector that analyses entries and scans audit files, in any order
NextDetector ==
    \/ \E log \in DetectorLogs : \E outcome \in DetectorOutcomes(llm) :
           AnalyzeLogEntry(log, outcome)
    \/ \E file \in AuditFiles : LoadAuditLogs(file)
    \/ DetectAttackSequences

SpecDetector == Init /\ [][NextDetector]_vars

\* one call setup.add_document(...) for a document; fail_at is the batch whose
\* upsert raises, 0 when none does
AddDocument(doc, fail_at) ==
    /\ rag.calls < MaxDocuments
    /\ rag' = [add_document(rag, doc, fail_at) EXCEPT !.calls = @ + 1]
    /\ UNCHANGED <<llm, stats, report, calls, returned, consulted, now, config, security,
                   engine, audit, scan, backup, recovery, chat, database>>

\* one call setup.clear_namespace()
ClearNamespace(outcome) ==
    /\ rag.calls < MaxDocuments
    /\ rag' = [clear_namespace(rag, outcome) EXCEPT !.calls = @ + 1]
    /\ UNCHANGED <<llm, stats, report, calls, returned, consulted, now, config, security,
                   engine, audit, scan, backup, recovery, chat, database>>

NextRag ==
    \/ \E doc \in Documents : \E fail_at \in 0..2 : AddDocument(doc, fail_at)
    \/ \E outcome \in ClearOutcomes : ClearNamespace(outcome)

SpecRag == InitEngine /\ [][NextRag]_vars

\* one call execute_custom_query(connection, sql_query)
ExecuteCustomQuery(sql_query, outcome) ==
    /\ database.calls < MaxQueries
    /\ database' = [execute_custom_query(database, sql_query, outcome)
                      EXCEPT !.calls = @ + 1, !.sql_query = sql_query,
                             !.outcome = outcome]
    /\ UNCHANGED <<llm, stats, report, calls, returned, consulted, now, config, security,
                   engine, audit, scan, backup, recovery, chat, rag>>

NextDatabase ==
    \E sql_query \in Statements : \E outcome \in QueryOutcomes :
        ExecuteCustomQuery(sql_query, outcome)

SpecDatabase == InitEngine /\ [][NextDatabase]_vars

-----------------------------------------------------------------------------
(* The properties.                                                         *)

\* the risk factors each configuration line grants, read off the line itself
RiskFactors(line) ==
    CASE line = "DBA" -> {"dba"}
      [] line \in {"SYSDBA", "SYSOPER"} -> {"sys"}
      [] line = "Select Any Table" -> {"select_any"}
      [] line = "UNLIMITED TABLESPACE" -> {"unlimited"}
      [] line \in {"Mot de passe qui n'expire jamais", "password never expires"} ->
           {"never_expire"}
      [] line = "CREATE ANY TABLE, SELECT ANY TABLE, DROP ANY VIEW" ->
           {"create_any", "select_any", "drop_any"}
      [] OTHER -> {}

FactorOrder ==
    <<"dba", "sys", "create_any", "select_any", "drop_any", "unlimited", "never_expire">>

FactorPoints == <<40, 30, 20, 20, 15, 10, 15>>

\* the score the deduction table gives a configuration when every condition is
\* triggered independently of the others
IndependentScore(lines) ==
    LET held == UNION {RiskFactors(lines[i]) : i \in 1..Len(lines)}
        d == [i \in 1..Len(FactorOrder) |->
                IF FactorOrder[i] \in held THEN FactorPoints[i] ELSE 0]
    IN  Max(0, Min(100, 100 - SumSeq(d)))

Assessed == security.status = "returned" /\ security.error = ""

\* C1: the score assess_security returns is max(0, min(100, 100 - D)), D being
\* the sum of the deductions of the risk factors the configuration holds, each
\* counted independently of the others (a configuration whose only risk factor
\* is SYSDBA scores 70).
C1_ScoreIsIndependentDeductions ==
    Assessed => security.score = IndependentScore(security.lines)

\* C1: the configuration whose only line is SYSDBA has been assessed and has
\* lost 70 points, the 30 of SYSDBA and the 40 of the role DBA.
C1_SysdbaOnlyLoses70 ==
    Assessed /\ security.lines = <<"SYSDBA">> /\ security.score = 30

\* the severity the fixed thresholds derive from a score: 0 for a score of at
\* least 80, then 1, 2, 3, and 4 for a score under 20
SeverityRank(score) ==
    IF score >= 80 THEN 0
    ELSE IF score >= 60 THEN 1
    ELSE IF score >= 40 THEN 2
    ELSE IF score >= 20 THEN 3
    ELSE 4

IsPrefix(p, q) == Len(p) <= Len(q) /\ SubSeq(q, 1, Len(p)) = p

\* C2: when a configuration is assessed again after roles, privileges or
\* password policies were added to it, the score is not higher than before and
\* the severity the thresholds derive from it is not less severe.
C2_ScoreMonotone ==
    [][(Assessed /\ security'.status = "returned" /\ security'.error = ""
          /\ IsPrefix(security.lines, security'.lines))
       => (/\ security'.score <= security.score
           /\ SeverityRank(security'.score) >= SeverityRank(security.score))]_vars

\* C2: a configuration of two lines has been assessed whose score is lower,
\* and whose severity is more severe, than those of its first line alone.
C2_AddedFactorLowersScore ==
    /\ Assessed
    /\ Len(security.lines) = 2
    /\ security.score < rule_score(ConfigText(<<security.lines[1]>>))
    /\ SeverityRank(security.score)
         > SeverityRank(rule_score(ConfigText(<<security.lines[1]>>)))

\* the codes of the critical Oracle error table
CriticalCodes ==
    {"ORA-00600", "ORA-00700", "ORA-01555", "ORA-01652", "ORA-00257", "ORA-27037",
     "TNS-12535", "TNS-12560"}

\* the codes of the table of suspect errors
SuspectCodes == {"ORA-00942", "ORA-01017", "ORA-12154", "ORA-28000"}

HasCode(text, codes) == \E c \in codes : Contains(Upper(text), c)

\* the signature classes of which some pattern is found in the combined text of
\* every log of Logs, those of which several patterns are found, and whether
\* the statement holds a code of the error tables
MatchMemo ==
    [l \in Logs |->
       LET low == Lower(combined_text(l))
           Hits(a) == {k \in 1..Len(ATTACK_PATTERNS[a].patterns) :
                          Search(ATTACK_PATTERNS[a].patterns[k], low)}
       IN  [classes |-> {a \in AttackTypes : Hits(a) # {}},
            repeated |-> {a \in AttackTypes : Cardinality(Hits(a)) >= 2},
            has_code |-> HasCode(LogGet(l, "sql_text", ""), CriticalCodes \cup SuspectCodes)]]

CriticalClasses ==
    {"SQL_INJECTION", "PRIVILEGE_ESCALATION", "DATA_EXFILTRATION", "SUSPICIOUS_DDL"}

Analyzed == report.status # "none"

Listed(a) == \E i \in 1..Len(report.attack_types) : report.attack_types[i] = a

\* C3: an entry whose combined text matches a pattern of a CRITICAL signature
\* class is reported CRITIQUE with score 100 and with that class among
\* attack_types, with or without an LLM engine and whatever the engine does.
C3_CriticalSignatureIsFinal ==
    (Analyzed /\ MatchMemo[report.log].classes \cap CriticalClasses # {})
    => /\ report.status = "returned"
       /\ report.classification = "CRITIQUE"
       /\ report.severity_score = 100
       /\ report.severity_level = "CRITIQUE"
       /\ \A a \in MatchMemo[report.log].classes \cap CriticalClasses : Listed(a)

\* C3: an SQL injection has been reported CRITIQUE although the analysis of the
\* LLM engine classified the entry SUSPECT.
C3_CriticalDespiteModel ==
    /\ llm = "text"
    /\ report.status = "returned"
    /\ "SQL_INJECTION" \in MatchMemo[report.log].classes
    /\ report.llm_analysis.classification = JStr("SUSPECT")
    /\ report.classification = "CRITIQUE"

\* C4: when patterns are found in an entry, attack_types lists every matched
\* class exactly once and nothing else, and severity_score and severity_level
\* are those of the most severe matched class.
C4_EachClassOnceMaxSeverity ==
    (Analyzed /\ MatchMemo[report.log].classes # {})
    => LET matched == MatchMemo[report.log].classes
       IN  /\ report.status = "returned"
           /\ \A a \in matched : Occurrences(report.attack_types, a) = 1
           /\ Len(report.attack_types) = Cardinality(matched)
           /\ \E a \in matched :
                /\ \A b \in matched :
                     SEVERITY_LEVELS[ATTACK_PATTERNS[b].severity].score
                        <= SEVERITY_LEVELS[ATTACK_PATTERNS[a].severity].score
                /\ report.severity_score
                     = SEVERITY_LEVELS[ATTACK_PATTERNS[a].severity].score
                /\ report.severity_level = ATTACK_PATTERNS[a].severity

\* C4: an entry has been reported that matches several classes, one of them by
\* several of its patterns, and whose classes are not all of the same severity.
C4_SeveralClassesSeveralPatterns ==
    /\ report.status = "returned"
    /\ MatchMemo[report.log].repeated # {}
    /\ \E a, b \in MatchMemo[report.log].classes :
          ATTACK_PATTERNS[a].severity # ATTACK_PATTERNS[b].severity

Detected == engine.op = "detect_anomaly"

\* C5: a log text that contains a code of the critical error table, in any
\* letter case, is classified CRITIQUE with model_used 'rule-based' and
\* confidence 'high', and no model is called.
C5_CriticalCodeIsRuleBased ==
    (Detected /\ HasCode(engine.input, CriticalCodes))
    => /\ ~engine.result.raised
       /\ engine.result.classification = "CRITIQUE"
       /\ engine.result.model_used = "rule-based"
       /\ engine.result.confidence = "high"
       /\ engine.result.model_calls = 0

\* C5: a text with a critical code in lower case has been classified CRITIQUE
\* while the model was ready to answer.
C5_LowerCaseCodeClassified ==
    /\ Detected
    /\ engine.input = "alert: ora-01555 raised"
    /\ engine.primary.ok
    /\ engine.result.classification = "CRITIQUE"

\* the classification and the justifications of the pattern rules for a set of
\* matched classes
PatternClassification(matched) ==
    IF \E a \in matched : SEVERITY_LEVELS[ATTACK_PATTERNS[a].severity].score >= 70
    THEN "CRITIQUE" ELSE "SUSPECT"

PatternJustifications(matched) ==
    LET order == SelectSeq(AttackOrder, LAMBDA a : a \in matched)
    IN  [i \in 1..Len(order) |-> ATTACK_PATTERNS[order[i]].description]

CodeAndPattern(log) == MatchMemo[log].has_code /\ MatchMemo[log].classes # {}

NightOrWeekend ==
    {"2026-01-05 22:00:00", "2026-01-06 06:30:00", "2026-01-09 00:15:00",
     "2026-01-10 03:00:00", "2026-01-11 12:00:00"}

WorkingHours ==
    {"2026-01-05 10:00:00", "2026-01-05T21:59:59", "2026-01-06 07:00:00.000000"}

\* C7: an entry in which no pattern is found is reported OFF_HOURS_ACCESS with
\* score 40 and level MOYEN when its timestamp is at night or on a weekend;
\* when it is within working hours (or is no ISO timestamp) and no model
\* answers, it is reported NORMAL with score 0 and no attack type.
C7_OffHoursIffNightOrWeekend ==
    (Analyzed /\ MatchMemo[report.log].classes = {})
    => IF LogGet(report.log, "timestamp", "") \in NightOrWeekend
       THEN /\ report.status = "returned"
            /\ report.is_off_hours
            /\ report.classification = "SUSPECT"
            /\ report.attack_types = <<"OFF_HOURS_ACCESS">>
            /\ report.severity_score = 40
            /\ report.severity_level = "MOYEN"
       ELSE /\ ~report.is_off_hours
            /\ llm \in {"none", "ollama"}
                 => /\ report.status = "returned"
                    /\ report.classification = "NORMAL"
                    /\ report.severity_score = 0
                    /\ report.severity_level = "NORMAL"
                    /\ report.attack_types = << >>

\* C7: a harmless statement of a Sunday at noon has been reported
\* OFF_HOURS_ACCESS.
C7_SundayNoonReported ==
    /\ report.status = "returned"
    /\ MatchMemo[report.log].classes = {}
    /\ LogGet(report.log, "timestamp", "") = "2026-01-11 12:00:00"
    /\ report.attack_types = <<"OFF_HOURS_ACCESS">>

C9_AnalyzeNeverRaises ==
    /\ report.status # "raised"
    /\ returned = calls
    /\ stats.total_logs = returned

\* C9: a call has raised AttributeError on a reply whose severite is null,
\* after total_logs was incremented.
C9_RaisedOnNullSeverity ==
    /\ report.status = "raised"
    /\ report.error = "AttributeError"
    /\ report.llm_analysis.severite = JNull
    /\ returned < calls
    /\ stats.total_logs = calls

SameButTimestamp(r1, r2) == [r1 EXCEPT !.timestamp = 0] = [r2 EXCEPT !.timestamp = 0]

\* the report of a fresh detector for the same entry at time 0
FreshReport ==
    LET outcome == CHOOSE o \in LlmOutcomes(llm) : TRUE
    IN  analyze_log_entry(InitStats, llm # "none", report.log, outcome, 0).report

\* C10, as stated: two classifications of the same entry in a row through the
\* rules return equal results.
C10_SameInputEqualResults ==
    [][(llm = "none" /\ report.status = "returned" /\ report'.status = "returned"
          /\ report'.log = report.log)
       => report' = report]_vars

\* C10, amended: when no model answers, the report of an entry is, in every
\* field but its timestamp, the report a fresh detector gives of that entry:
\* it does not depend on the entries analysed before, and two reports of the
\* same entry differ in their timestamp at most.
C10_ResultIndependentOfHistory ==
    (llm \in {"none", "ollama"} /\ Analyzed)
    => /\ report.status = "returned"
       /\ SameButTimestamp(report, FreshReport)

\* C10: the one entry of Logs that matches BRUTE_FORCE has been reported twice
\* by a detector without model, the second time at a later time.
C10_SecondReportLater ==
    /\ llm = "none"
    /\ report.status = "returned"
    /\ calls = 2
    /\ stats.total_logs = 2
    /\ stats.attacks_detected["BRUTE_FORCE"] = 2
    /\ report.attack_types = <<"BRUTE_FORCE">>
    /\ report.timestamp > 0

\* a deterministic rule of analyze_log_entry fires on the entry: a signature
\* pattern or the off-hours rule
RuleFired(log) == MatchMemo[log].classes # {} \/ LogGet(log, "timestamp", "") \in NightOrWeekend

\* LLMEngine.detect_anomaly calls no model on a text in which a code of its
\* error tables is found, whatever the model would answer
CodedTextsCallNoModel ==
    \A text \in AnomalyTexts : \A pf \in OllamaPairs :
        HasCode(text, CriticalCodes \cup SuspectCodes)
        => (AnomalyMemo[text, pf].model_calls = 0
            /\ AnomalyMemo[text, pf].model_used = "rule-based")

ModelAnswered == Detected /\ engine.result.model_calls > 0
                    /\ (engine.primary.ok \/ engine.fallback.ok)

Reply == IF engine.primary.ok THEN engine.primary.response ELSE engine.fallback.response

ClassificationKeywords == {"normal", "suspect", "critique", "critical", "anormal"}

\* C12: whatever the model replies, the classification detect_anomaly returns
\* is NORMAL, SUSPECT or CRITIQUE, and it is NORMAL when the reply holds no
\* classification keyword.
C12_ClassificationIsOneOfThree ==
    ModelAnswered
    => /\ engine.result.classification \in {"NORMAL", "SUSPECT", "CRITIQUE"}
       /\ (\A k \in ClassificationKeywords : ~Contains(Lower(Reply), k))
             => engine.result.classification = "NORMAL"

\* C12: the reply 'classification: dangereux' has been returned as the
\* classification DANGEREUX with severity MOYENNE.
C12_UnknownWordReturned ==
    /\ ModelAnswered
    /\ Reply = "classification: dangereux"
    /\ engine.result.classification = "DANGEREUX"
    /\ engine.result.severity = "MOYENNE"

\* C13: every report returned with a classification other than NORMAL, be it
\* from a signature pattern, from the off-hours rule or from the analysis of
\* the engine, carries at least one justification, and no empty one.
C13_JustifiedWhenNotNormal ==
    (report.status = "returned" /\ report.classification # "NORMAL")
    => /\ report.justifications # << >>
       /\ \A i \in 1..Len(report.justifications) : report.justifications[i] # ""

\* C13: an entry on which no rule fired has been reported SUSPECT on the
\* analysis of the engine, with the engine's justification.
C13_PromotedWithJustification ==
    /\ report.status = "returned"
    /\ ~RuleFired(report.log)
    /\ report.classification = "SUSPECT"
    /\ report.justifications = <<"LLM: volume inhabituel">>

\* C14: a returned assessment lists one rationale per deduction rule that
\* fired: at least k risks when k >= 1 rules fired, and no risk when no rule
\* fired and the score is 100.
C14_OneRiskPerFiredRule ==
    Assessed =>
        LET k == FiredMemo[ConfigText(security.lines)]
        IN  /\ Len(security.risks) >= k
            /\ (k = 0 /\ security.score = 100) => security.risks = << >>

\* C14: the role DBA with a password that never expires has been assessed
\* while neither model answered: two rules fired, the score is 45 and the list
\* of risks is empty.
C14_TwoRulesNoRisk ==
    /\ Assessed
    /\ security.lines = <<"DBA", "password never expires">>
    /\ security.score = 45
    /\ security.model_calls = 2
    /\ security.risks = << >>

\* a security analysis of the current result, by the engine or by the page
SecurityAnalysed == security.status \in {"returned", "displayed"} /\ security.error = ""

HoldsDba(lines) == \E i \in 1..Len(lines) : lines[i] = "DBA"

\* C15: every analysed configuration that holds the role DBA has a score whose
\* severity by the fixed thresholds is MEDIUM_HIGH or worse (a score under 60),
\* and one of its justifications mentions administrative access.
C15_DbaIsMediumHighAndJustified ==
    (SecurityAnalysed /\ HoldsDba(security.lines)) =>
        /\ SeverityRank(security.score) >= 2
        /\ \E i \in 1..Len(security.risks) :
               Contains(Lower(security.risks[i]), "administrat")

\* C15: the configuration whose only line is the role DBA has been assessed by
\* the engine while neither model answered: the score is 60, MEDIUM by the
\* thresholds, and no justification is listed.
C15_DbaOnlyIsMedium ==
    /\ Assessed
    /\ security.lines = <<"DBA">>
    /\ security.score = 60
    /\ SeverityRank(security.score) = 1
    /\ security.model_calls = 2
    /\ security.risks = << >>

\* the fields an audit log entry must carry
RequiredFields == {"timestamp", "username", "sql_text"}

Incomplete(log) == \E f \in RequiredFields : f \notin DOMAIN log

\* C16: analysing an entry that lacks a required field fails with an InputError
\* that reaches the caller; no report is returned for it.
C16_MissingFieldIsInputError ==
    (report.status # "none" /\ Incomplete(report.log))
    => (report.status = "raised" /\ report.error = "InputError")

\* C16: an entry without timestamp has been analysed and a report was
\* returned: the entry is NORMAL and not off hours, as the entry with an empty
\* timestamp is.
C16_IncompleteEntryReported ==
    /\ report.status = "returned"
    /\ report.log = EntryWithoutTimestamp
    /\ Incomplete(report.log)
    /\ report.classification = "NORMAL"
    /\ ~report.is_off_hours
    /\ stats.total_logs = calls

Scanned == scan.status = "returned"

\* the session of that key is among the sequences returned
Flagged(key) == \E i \in 1..Len(scan.sequences) : scan.sequences[i].session = key

\* the records of the list given that belong to the session of that key and
\* match a pattern of a signature class
PatternRecords(key) ==
    {i \in 1..Len(scan.logs) :
        session_key(scan.logs[i]) = key /\ MatchMemo[scan.logs[i]].classes # {}}

\* the same with the records that match any of the seven classes, the class
\* OFF_HOURS_ACCESS included
RuleRecords(key) ==
    {i \in 1..Len(scan.logs) : session_key(scan.logs[i]) = key /\ RuleFired(scan.logs[i])}

ChainLogs(s) == [i \in 1..Len(s.attack_chain) |-> s.attack_chain[i].log]

InputRecords(key) ==
    SelectSeq(scan.logs, LAMBDA l : session_key(l) = key /\ MatchMemo[l].classes # {})

At(logs, t) == SelectSeq(logs, LAMBDA l : l.timestamp = t)

\* C18 (as stated): the attack chain of every sequence returned lists the
\* matching records of the session in the order of the input list.
C18_ChainInInputOrder ==
    Scanned =>
        \A i \in 1..Len(scan.sequences) :
            ChainLogs(scan.sequences[i]) = InputRecords(scan.sequences[i].session)

\* C18 (amended): the attack chain of every sequence returned lists the matching
\* records of the session by ascending timestamp; records of equal timestamps
\* keep the order of the input list.
C18_ChainInTimestampOrder ==
    Scanned =>
        \A i \in 1..Len(scan.sequences) :
            LET c == ChainLogs(scan.sequences[i])
                m == InputRecords(scan.sequences[i].session)
            IN  /\ Len(c) = Len(m)
                /\ \A l \in SessionLogs : Occurrences(c, l) = Occurrences(m, l)
                /\ \A j, k \in 1..Len(c) :
                       j < k => LeqMemo[c[j].timestamp, c[k].timestamp]
                /\ \A t \in SessionTimestamps : At(c, t) = At(m, t)

\* C18: a list of three matching records of ATTACKER whose second is the
\* earliest was scanned: the chain starts with the second record of the list,
\* and the two records of the same Saturday night keep their order.
C18_ChainReordered ==
    /\ Scanned
    /\ Len(scan.logs) = 3
    /\ scan.logs[1].timestamp = SaturdayNight
    /\ scan.logs[2].timestamp = WorkTime
    /\ scan.logs[3].timestamp = SaturdayNight
    /\ scan.logs[1] # scan.logs[3]
    /\ Len(scan.sequences) = 1
    /\ ChainLogs(scan.sequences[1]) = <<scan.logs[2], scan.logs[1], scan.logs[3]>>

Generated == engine.op = "generate"

FallbackPrefix == "[tinyllama fallback] "

\* C19: every call of generate returns a str after one or two calls of a
\* model: the reply of the requested model after one call; when that call
\* fails, the reply of the fallback model behind the prefix
\* '[tinyllama fallback]' after two calls; when both fail, the error message
\* after two calls and no exception. The calls of generate made by
\* detect_anomaly never exceed two calls of a model either.
C19_GenerateIsBounded ==
    /\ engine.op # "none" => engine.result.model_calls <= 2
    /\ Generated =>
          /\ ~engine.result.raised
          /\ IF engine.primary.ok
             THEN /\ engine.result.model_calls = 1
                  /\ engine.result.text = Strip(engine.primary.response)
             ELSE IF engine.fallback.ok
             THEN /\ engine.result.model_calls = 2
                  /\ Slice(engine.result.text, 1, Len(FallbackPrefix)) = FallbackPrefix
                  /\ Slice(engine.result.text, Len(FallbackPrefix) + 1,
                           Len(engine.result.text)) = Strip(engine.fallback.response)
             ELSE /\ engine.result.model_calls = 2
                  /\ Slice(engine.result.text, 1, 8) = "[Erreur]"

\* C19: generate has been called while the requested model failed and the
\* fallback model answered: two calls, and the reply behind the prefix.
C19_FallbackReplied ==
    /\ Generated
    /\ ~engine.primary.ok /\ engine.fallback.ok
    /\ engine.result.model_calls = 2
    /\ Slice(engine.result.text, 1, Len(FallbackPrefix)) = FallbackPrefix

Selected == backup.status = "returned"

\* the strategies whose rpo_range and rto_range both contain the request,
\* bounds included, by their rank in the order of the table
Containing(rpo, rto) ==
    {k \in 1..Len(StrategyOrder) :
        LET strat == BACKUP_STRATEGIES[StrategyOrder[k]]
        IN  /\ rpo \in Hours(strat.rpo_range[1])..Hours(strat.rpo_range[2])
            /\ rto \in Hours(strat.rto_range[1])..Hours(strat.rto_range[2])}

\* C20: select_strategy returns one of the four strategy keys: the first
\* strategy of the table whose two ranges contain the request (bounds
\* included), and when there is none the strategy of the RPO alone (under 1
\* hour, at most 4, at most 8, otherwise); another budget gives the same result.
C20_FirstContainingStrategy ==
    Selected =>
        LET containing == Containing(backup.rpo, backup.rto)
        IN  /\ \E k \in 1..Len(StrategyOrder) : backup.strategy = StrategyOrder[k]
            /\ containing # {} =>
                  backup.strategy =
                      StrategyOrder[CHOOSE k \in containing : \A j \in containing : k <= j]
            /\ containing = {} =>
                  backup.strategy =
                      CASE backup.rpo < Hours(1) -> "CRITICAL_24_7"
                        [] backup.rpo \in Hours(1)..Hours(4) -> "PRODUCTION_STANDARD"
                        [] backup.rpo \in (Hours(4) + 1)..Hours(8) -> "BUSINESS_HOURS"
                        [] OTHER -> "DEVELOPMENT"
            /\ \A b \in Budgets :
                  select_strategy(backup.rpo, backup.rto, b) = backup.strategy

\* C20: an RPO of 1 hour with an RTO of 2 hours, contained by the ranges of
\* CRITICAL_24_7 and of PRODUCTION_STANDARD, has been given CRITICAL_24_7.
C20_FirstOfTwoContaining ==
    /\ Selected
    /\ backup.rpo = Hours(1) /\ backup.rto = Hours(2)
    /\ Cardinality(Containing(backup.rpo, backup.rto)) = 2
    /\ backup.strategy = "CRITICAL_24_7"

\* a question that holds none of the keywords of the scenarios
MatchesNoKeyword(question) ==
    \A scenario \in DOMAIN scenario_keywords :
        \A i \in 1..Len(scenario_keywords[scenario]) :
            ~Contains(Lower(question), scenario_keywords[scenario][i])

NoKeywordMemo == [question \in Questions |-> MatchesNoKeyword(question)]

\* C21: the clarification protocol of handle_user_question.  A question that
\* matches no scenario keyword returns the error 'Scenario non reconnu' with
\* the possible scenarios and no guide; a question that matches a scenario and
\* is asked without clarification answers returns a guide and
\* needs_clarification = true; the same question asked again with answers
\* returns the same scenario and needs_clarification = false.
C21_ClarificationProtocol ==
    [][/\ NoKeywordMemo[recovery'.question] =>
            /\ recovery'.status = "returned"
            /\ recovery'.result.error = "Scenario non reconnu"
            /\ Len(recovery'.result.possible_scenarios) = 4
            /\ "guide" \notin DOMAIN recovery'.result
       /\ (~NoKeywordMemo[recovery'.question] /\ ~recovery'.answers.given) =>
            /\ recovery'.status = "returned"
            /\ "guide" \in DOMAIN recovery'.result
            /\ recovery'.result.needs_clarification
       /\ (/\ recovery.status = "returned"
           /\ ~NoKeywordMemo[recovery'.question]
           /\ recovery'.question = recovery.question
           /\ Truthy(recovery'.answers)) =>
            /\ recovery'.status = "returned"
            /\ recovery'.result.scenario = recovery.result.scenario
            /\ ~recovery'.result.needs_clarification]_vars

\* C21: a question that names a crash, and so matches full_recovery, was asked
\* without clarification answers and handle_user_question raised ValueError
\* instead of returning a guide.
C21_QuestionWithBraceRaised ==
    /\ recovery.status = "raised"
    /\ recovery.error = "ValueError"
    /\ ~recovery.answers.given
    /\ ClassifyMemo[recovery.question] = "full_recovery"
    /\ Contains(recovery.question, "{")

\* the playbook of the guide the last call returned
HasGuide == recovery.status = "returned" /\ "guide" \in DOMAIN recovery.result
Playbook == recovery.result.guide.playbook

\* C22: for every recognised scenario the playbook of the guide, read from the
\* reply of the model or built by the local fallback, has at least 3 steps, at
\* least 2 commands, at least 1 validation point and an estimated time.
C22_PlaybookIsComplete ==
    HasGuide =>
        /\ recovery.result.scenario \in DOMAIN scenarios
        /\ Len(Playbook.steps) >= 3
        /\ Len(Playbook.commands) >= 2
        /\ Len(Playbook.validation_points) >= 1
        /\ Playbook.estimated_time \notin {Absent, ""}

\* C22: the local fallback returned a guide for row_recovery whose playbook has
\* no step, no command and no validation point.
C22_EmptyRowRecoveryPlaybook ==
    /\ HasGuide
    /\ recovery.result.scenario = "row_recovery"
    /\ ~recovery.result.guide.llm_generated
    /\ Playbook.steps = << >>
    /\ Playbook.commands = << >>
    /\ Playbook.validation_points = << >>
    /\ Playbook.estimated_time = "5-30 minutes"

\* the stages of generate_intelligent_response, in their order, and whether the
\* keywords of a stage match a question
StageOrder ==
    <<"handle_database_query", "handle_backup_strategy", "handle_query_optimization",
      "handle_security_audit", "handle_anomaly_detection", "handle_recovery_guide",
      "database_help", "get_contextual_help">>

StageKeywords ==
    <<backup_keywords, query_keywords, security_keywords, anomaly_keywords,
      recovery_keywords, generic_keywords>>

StageMatches(i, prompt_lower) ==
    CASE i = 1 -> is_database_specific_question(prompt_lower)
      [] i = 8 -> TRUE
      [] OTHER -> AnyIn(StageKeywords[i - 1], prompt_lower)

\* the question of the last answer, as the stages read it
Asked == Strip(Lower(chat.prompt))

\* the answer comes from the first stage, in the fixed order, that matches
FirstMatchingStage ==
    chat.status = "answered" =>
        \E i \in 1..Len(StageOrder) :
            /\ chat.handler = StageOrder[i]
            /\ StageMatches(i, Asked)
            /\ \A j \in 1..(i - 1) : ~StageMatches(j, Asked)

\* C23: every question is answered by exactly one handler, the first whose
\* keywords match in the order database-specific, backup, query optimisation,
\* security, anomaly, recovery, generic help, contextual help; in particular a
\* question about a backup ('sauvegarde') is answered by the backup handler and
\* a question about a slow or to-be-optimised query ('requete', 'lent',
\* 'optimise') by the query-optimisation handler.
C23_RoutedToTheMatchingHandler ==
    /\ FirstMatchingStage
    /\ (chat.status = "answered" /\ Contains(Asked, "sauvegarde"))
           => chat.handler = "handle_backup_strategy"
    /\ (chat.status = "answered" /\ ~Contains(Asked, "sauvegarde")
           /\ ContainsAny(Asked, {"requete", "lent", "optimise"}))
           => chat.handler = "handle_query_optimization"

\* C23: the question 'requete performante' of test_chatbot.py was answered by
\* the backup handler, 'rman' being found in 'performante'.
C23_QueryQuestionGotBackupAnswer ==
    /\ chat.status = "answered"
    /\ chat.prompt = "requete performante"
    /\ Contains(Asked, "requete") /\ ~Contains(Asked, "sauvegarde")
    /\ chat.handler = "handle_backup_strategy"
    /\ chat.messages[Len(chat.messages)].content = "handle_backup_strategy"

\* C24: after any sequence of analyze_log_entry calls on one detector, with or
\* without a model, the calls that the model analysis raises from NORMAL to
\* SUSPECT or CRITIQUE included, normal + suspect + critique = total_logs and
\* no counter is negative.
C24_CountersAddUp ==
    /\ stats.normal + stats.suspect + stats.critique = stats.total_logs
    /\ stats.normal >= 0 /\ stats.suspect >= 0 /\ stats.critique >= 0
    /\ stats.total_logs >= 0

\* C24: the second entry analysed matched no rule and was raised to SUSPECT or
\* CRITIQUE by the analysis of the model; no entry is counted as normal.
C24_PromotedEntryCounted ==
    /\ report.status = "returned"
    /\ MatchMemo[report.log].classes = {} /\ ~report.is_off_hours
    /\ report.classification \in {"SUSPECT", "CRITIQUE"}
    /\ stats.total_logs = 2
    /\ stats.normal = 0

\* the classes of which detect_attack_patterns finds a pattern in some log
Matched(log, a) == Occurrences(ScanMemo[log].detected, a) > 0

\* C25: detect_attack_sequences leaves the statistics of the detector as they
\* are: in every interleaving of analyze_log_entry and detect_attack_sequences
\* calls, attacks_detected[c] grows by one with each entry analyse_log_entry is
\* given that matches the class c, and with nothing else.
C25_SequencesLeaveStatsUnchanged ==
    [][/\ DetectAttackSequences => stats' = stats
       /\ \A log \in DetectorLogs : \A outcome \in DetectorOutcomes(llm) :
            AnalyzeLogEntry(log, outcome) =>
                \A a \in AttackTypes :
                    stats'.attacks_detected[a] =
                        stats.attacks_detected[a] + (IF Matched(log, a) THEN 1 ELSE 0)]_vars

\* C25: no entry was analysed, a file of three statements of one session was
\* scanned, and attacks_detected counts their injections.
C25_ScanCountedAttacks ==
    /\ scan.status = "returned"
    /\ Len(scan.logs) = 3
    /\ stats.total_logs = 0
    /\ report.status = "none"
    /\ stats.attacks_detected["SQL_INJECTION"] = 2

\* C26: in every report analyze_log_entry returns, classification and severity
\* agree: the classification is NORMAL exactly when severity_score is 0 and
\* severity_level is NORMAL, also when the model analysis raised it.
C26_ClassificationAgreesWithSeverity ==
    report.status = "returned" =>
        (report.classification = "NORMAL"
            <=> (report.severity_score = 0 /\ report.severity_level = "NORMAL"))

\* C26: an entry that matched no rule was raised to CRITIQUE by a reply whose
\* severity is 'HAUTE', and is reported with score 0 and level NORMAL.
C26_CritiqueWithScoreZero ==
    /\ report.status = "returned"
    /\ report.classification = "CRITIQUE"
    /\ report.llm_analysis # EmptyDict
    /\ report.llm_analysis.severite = JStr("HAUTE")
    /\ report.severity_score = 0
    /\ report.severity_level = "NORMAL"

\* C27: detect_attack_sequences never puts the records of two different
\* (username, client_ip) pairs into one group: the records counted towards the
\* threshold of a group all have the same username and the same client_ip.
C27_GroupsHoldOnePair ==
    Scanned =>
        \A i \in 1..Len(scan.sequences) :
            \A x, y \in 1..Len(scan.sequences[i].attack_chain) :
                LET a == scan.sequences[i].attack_chain[x].log
                    b == scan.sequences[i].attack_chain[y].log
                IN  a.username = b.username /\ a.client_ip = b.client_ip

\* C27: a sequence was returned for the key SVC_BATCH_srv01 whose three
\* records are two of SVC at BATCH_srv01 and one of SVC_BATCH at srv01.
C27_TwoPairsInOneGroup ==
    /\ Scanned
    /\ Len(scan.sequences) = 1
    /\ scan.sequences[1].session = "SVC_BATCH_srv01"
    /\ Len(scan.sequences[1].attack_chain) = 3
    /\ {l.username : l \in {scan.sequences[1].attack_chain[x].log : x \in 1..3}}
           = {"SVC", "SVC_BATCH"}
    /\ Cardinality({x \in 1..3 : scan.sequences[1].attack_chain[x].log.username = "SVC"}) = 2

\* C28: select_strategy never recommends a strategy designed for a looser
\* recovery point than the one requested: for every positive RPO and RTO the
\* lower bound of the rpo_range of the strategy returned is at most the RPO
\* requested.
C28_StrategyNotLooserThanRequest ==
    (Selected /\ backup.rpo > 0 /\ backup.rto > 0) =>
        Hours(BACKUP_STRATEGIES[backup.strategy].rpo_range[1]) <= backup.rpo

\* C28: an RPO of 8.5 hours, which no range contains, has been given
\* DEVELOPMENT, whose recovery points start at 24 hours.
C28_DevelopmentForEightAndAHalfHours ==
    /\ Selected
    /\ backup.rpo = 17
    /\ Containing(backup.rpo, backup.rto) = {}
    /\ backup.strategy = "DEVELOPMENT"
    /\ Hours(BACKUP_STRATEGIES["DEVELOPMENT"].rpo_range[1]) = 48

\* the last call was add_document for a file
AddedFile == rag.last.op = "add_document" /\ rag.last.doc.has_path

\* C29: between two clear_namespace calls a file that does not change is
\* upserted completely at most once: add_document records a file as processed
\* only after the last batch of its chunks was upserted, every later
\* add_document for the file is skipped without an upsert and only
\* skipped_duplicates grows, and a document that is too short or gives no chunk
\* is never recorded as processed.
C29_FileUpsertedAtMostOnce ==
    [][/\ \A h \in DocumentHashes : rag'.completed[h] <= 1
       /\ \A h \in rag'.processed_docs \ rag.processed_docs :
            /\ rag'.last.op = "add_document" /\ rag'.last.doc.has_path
            /\ get_document_hash(rag'.last.doc) = h
            /\ rag'.last.total_batches >= 1
            /\ rag'.last.upserted = rag'.last.total_batches
       /\ (/\ rag'.calls = rag.calls + 1
           /\ rag'.last.op = "add_document" /\ rag'.last.doc.has_path
           /\ get_document_hash(rag'.last.doc) \in rag.processed_docs) =>
            /\ rag'.last.outcome = "skipped"
            /\ rag'.upserts = rag.upserts
            /\ rag'.processed_docs = rag.processed_docs
            /\ rag'.stats = [rag.stats EXCEPT !.skipped_duplicates = @ + 1]
       /\ (rag'.calls = rag.calls + 1 /\ rag'.last.outcome \in {"too_short", "no_chunks"}) =>
            rag'.processed_docs = rag.processed_docs]_vars

\* C29: the guide, whose 103 chunks go in two batches, was added, then an
\* upsert of its second batch was to fail, and the call was skipped: the guide
\* is recorded, two batches were upserted and one duplicate was skipped.
C29_SecondAddSkipped ==
    /\ AddedFile
    /\ rag.last.doc.name = "guide.pdf"
    /\ rag.last.outcome = "skipped"
    /\ rag.completed[get_document_hash(rag.last.doc)] = 1
    /\ rag.upserts = 2
    /\ rag.stats.skipped_duplicates = 1
    /\ rag.stats.total_chunks = 103

\* C30: execute_custom_query never gives a statement that changes the data or
\* the schema to the database: everything given to cursor.execute is a
\* read-only SELECT, and a statement that is not one is answered with
\* 'Requete non autorisee' once the cursor is there, cursor.execute not called.
C30_OnlyReadOnlySelectsExecuted ==
    /\ \A k \in 1..Len(database.executed) : database.executed[k] \in ReadOnlySelects
    /\ (/\ database.calls > 0
        /\ database.sql_query \notin ReadOnlySelects
        /\ database.outcome.raises # "cursor") =>
            database.response.heading = "Requete non autorisee"

\* a GRANT was given to cursor.execute and answered as a success
C30_GrantExecuted ==
    /\ database.calls > 0
    /\ database.sql_query = "GRANT DBA TO scott"
    /\ database.executed # << >>
    /\ database.executed[Len(database.executed)] = "GRANT DBA TO scott"
    /\ database.response.heading = "Requete executee avec succes"
====
